---- MODULE Spec2Model ----
(***************************************************************************)
(* Automaton Auditor: the deterministic opinion-synthesis engine           *)
(* (ChiefJusticeNode, src/src/nodes/justice.py) over the shared AgentState *)
(* (src/src/state.py).                                                     *)
(* Beside it: the EvidenceRegistry and the EvidenceGraph (src/src/core),   *)
(* each under a specification of its own (StoreSpec, GraphSpec), and the   *)
(* MetaAuditNode (src/src/nodes/meta_audit.py) under MetaSpec;             *)
(* ChiefJusticeNode.meta_override called by hand under OverrideSpec, and   *)
(* the evidence reducer merge_dicts (src/src/state.py) under MergeSpec.    *)
(*                                                                         *)
(* Conventions of the model                                                *)
(*  - strings are TLA+ strings; substring tests, lower() and split('_')    *)
(*    are computed character by character;                                 *)
(*  - Evidence.confidence (a float in [0,1]) is kept in hundredths, so the *)
(*    thresholds 0.3, 0.4, 0.6, 0.7 are 30, 40, 60, 70;                    *)
(*  - a float quotient a / b is kept as the exact fraction                 *)
(*    [num |-> a, den |-> b]; round() is Python's round-half-to-even;      *)
(*  - None is the string "None";                                           *)
(*  - free-text fields that no rule reads (argument, rationale, content,   *)
(*    location, dimension_name, timestamps) are left out; a message string *)
(*    built by the code is kept as a record of its kind and of the values  *)
(*    formatted into it.                                                   *)
(***************************************************************************)
EXTENDS Integers, Sequences, FiniteSets, TLC

VARIABLES
    rubric_dimensions, \* AgentState.rubric_dimensions : list of criterion ids
    opinions,       \* AgentState.opinions : list of JudicialOpinion
    evidences,      \* AgentState.evidences : detector -> list of Evidence
    registry,       \* AgentState.registry._store : id -> EvidenceRecord
    final_report,   \* AgentState.final_report : AuditReport or None
    prev_report,    \* the final_report the previous run of chief_justice left
    added,          \* the records handed to EvidenceRegistry.add so far, in call
                    \* order; under MergeSpec the detective outputs merged so far
    outcome,        \* the last call made by hand and what it gave
    edges,          \* EvidenceGraph.edges : parent id -> set of child ids
    linked,         \* the pairs handed to EvidenceGraph.link since the last clear
    runs,           \* MetaAuditState.runs : list of AuditRun
    meta_registry,  \* MetaAuditState.meta_registry : identity -> EvidenceRecord
    meta_scores,    \* MetaAuditState.meta_scores : criterion id -> score in hundredths
    meta_trace      \* MetaAuditState.reasoning_trace : list of log entries

judicial_vars == <<rubric_dimensions, opinions, evidences, final_report, prev_report>>
graph_vars == <<edges, linked>>
meta_vars == <<runs, meta_registry, meta_scores, meta_trace>>

vars == <<rubric_dimensions, opinions, evidences, registry, final_report, prev_report,
          added, outcome, edges, linked, runs, meta_registry, meta_scores, meta_trace>>

None == "None"

(***************************************************************************)
(* Strings: str.lower(), `sub in s`, str.split(sep)                        *)
(***************************************************************************)
UpperChars == "ABCDEFGHIJKLMNOPQRSTUVWXYZ"
LowerChars == "abcdefghijklmnopqrstuvwxyz"

CharAt(s, i) == SubSeq(s, i, i)

LowerChar(c) ==
    IF \E i \in 1..Len(UpperChars) : CharAt(UpperChars, i) = c
    THEN CharAt(LowerChars, CHOOSE i \in 1..Len(UpperChars) : CharAt(UpperChars, i) = c)
    ELSE c

RECURSIVE LowerFrom(_, _)
LowerFrom(s, i) ==
    IF i > Len(s) THEN "" ELSE LowerChar(CharAt(s, i)) \o LowerFrom(s, i + 1)

Lower(s) == LowerFrom(s, 1)

\* Python's `sub in s` for strings ("" is in every string).
Contains(sub, s) ==
    \E i \in 1..(Len(s) - Len(sub) + 1) : SubSeq(s, i, i + Len(sub) - 1) = sub

\* Python's s.split(sep) for a one-character sep: the list of the fields
\* between separators, empty fields kept.
RECURSIVE SplitFrom(_, _, _, _)
SplitFrom(s, sep, start, i) ==
    IF i > Len(s) THEN <<SubSeq(s, start, Len(s))>>
    ELSE IF CharAt(s, i) = sep
         THEN <<SubSeq(s, start, i - 1)>> \o SplitFrom(s, sep, i + 1, i + 1)
         ELSE SplitFrom(s, sep, start, i + 1)

Split(s, sep) == SplitFrom(s, sep, 1, 1)

Range(seq) == {seq[i] : i \in 1..Len(seq)}

(***************************************************************************)
(* Input pools.  Criterion ids and evidence goals are taken from the       *)
(* repository's rubrics, detectives and tests.                             *)
(***************************************************************************)
Judges == <<"Prosecutor", "Defense", "TechLead">>

CriterionIds ==
    { "architecture_pattern",              \* tests/test_contradictions.py
      "graph_orchestration_architecture",  \* src/benchmark.py
      "graph_orchestration",               \* src/main.py
      "state_management_rigor",            \* src/main.py
      "test_infrastructure",               \* src/benchmark.py
      "test_criterion",                    \* tests/test_justice_logic.py
      "safe_tool_engineering",             \* src/main.py
      "security_review",
      "repository_structure" }             \* src/benchmark.py

Goals ==
    { "Graph Orchestration Architecture",  \* src/tools/repo_tools.py
      "State Management Rigor",
      "CI/CD Infrastructure",              \* src/tools/repo_tools.py
      "Test Infrastructure",               \* src/tools/repo_tools.py
      "Secrets Scanning",                  \* src/tools/repo_tools.py
      "Safe Tool Engineering: security review",
      "Repository Format & Onboarding" }   \* src/tools/repo_tools.py

\* justice.py 197-198 (the same test at 22-23 and 31-32): the evidence
\* addresses the criterion when the lower-cased id, or any '_'-separated
\* word of it, occurs in the lower-cased goal.
GoalMatches(criterion_id, goal) ==
    LET c == Lower(criterion_id)
        g == Lower(goal)
        words == Split(c, "_")
    IN  Contains(c, g) \/ \E k \in 1..Len(words) : Contains(words[k], g)

\* justice.py 70
NamesSecurity(criterion_id) ==
    Contains("safe", Lower(criterion_id)) \/ Contains("security", Lower(criterion_id))

\* justice.py 130
NamesArchitectureOrOrchestration(criterion_id) ==
    Contains("architecture", Lower(criterion_id)) \/ Contains("orchestration", Lower(criterion_id))

\* justice.py 289, 290, 298
NamesArchitecture(criterion_id) == Contains("architecture", Lower(criterion_id))
NamesState(criterion_id) == Contains("state", Lower(criterion_id))
NamesTest(criterion_id) == Contains("test", Lower(criterion_id))

\* The string tests above, tabulated once over the pools.
MatchTable == [c \in CriterionIds |-> [g \in Goals \cup CriterionIds |-> GoalMatches(c, g)]]
SecurityTable == [c \in CriterionIds |-> NamesSecurity(c)]
WeightedTable == [c \in CriterionIds |-> NamesArchitectureOrOrchestration(c)]
ArchitectureTable == [c \in CriterionIds |-> NamesArchitecture(c)]
StateTable == [c \in CriterionIds |-> NamesState(c)]
TestTable == [c \in CriterionIds |-> NamesTest(c)]

Matches(criterion_id, ev) == MatchTable[criterion_id][ev.goal]

(***************************************************************************)
(* Numbers                                                                 *)
(***************************************************************************)
Max2(a, b) == IF a >= b THEN a ELSE b
Min2(a, b) == IF a <= b THEN a ELSE b
Abs(a) == IF a < 0 THEN -a ELSE a

RECURSIVE SumSeq(_)
SumSeq(seq) == IF seq = <<>> THEN 0 ELSE Head(seq) + SumSeq(Tail(seq))

\* Python 3 round(num / den) for num >= 0, den > 0: to the nearest integer,
\* an exact half to the even neighbour.
Round(num, den) ==
    LET q == num \div den
        r == num % den
    IN  IF 2 * r < den THEN q
        ELSE IF 2 * r > den THEN q + 1
        ELSE IF q % 2 = 0 THEN q ELSE q + 1

(***************************************************************************)
(* Records built by the synthesizer                                        *)
(***************************************************************************)
\* One reasoning_trace string: its kind and the values formatted into it.
Entry(kind, judge, text, a, b) ==
    [kind |-> kind, judge |-> judge, text |-> text, a |-> a, b |-> b, judges |-> <<>>]

\* An entry that also formats the list of valid judges.
EntryWithJudges(kind, judges, a) ==
    [kind |-> kind, judge |-> "", text |-> "", a |-> a, b |-> 0, judges |-> judges]

Remediation(kind, about) == [kind |-> kind, about |-> about]
Dissent(kind, delta) == [kind |-> kind, delta |-> delta]
NoDissent == Dissent(None, 0)

\* A contradiction message appended to detected_contradictions.
Contradiction(kind, about) == [kind |-> kind, about |-> about]

(***************************************************************************)
(* EvidenceRegistry (src/src/core/evidence_registry.py)                    *)
(***************************************************************************)
\* exists(evidence_id): the value returned, and the store it leaves.
RegistryExists(store, evidence_id) == evidence_id \in DOMAIN store

\* what a call gives: the exception it raises, or None and the value returned
Raises(exception) == [raised |-> exception, value |-> None]
Returns(value) == [raised |-> None, value |-> value]

\* variant: a lookup that answers None for a missing id (dict.get style)
RegistryGet_Default(store, evidence_id) ==
    IF evidence_id \in DOMAIN store THEN Returns(store[evidence_id]) ELSE Returns(None)
\* get(evidence_id): self._store[evidence_id] raises KeyError for a missing key
RegistryGet(store, evidence_id) ==
    IF evidence_id \in DOMAIN store THEN Returns(store[evidence_id]) ELSE Raises("KeyError")

\* variant: a lookup that creates an entry for a missing id (defaultdict style)
StoreAfterExists_Inserting(store, evidence_id) ==
    [id \in DOMAIN store \cup {evidence_id} |->
        IF id \in DOMAIN store THEN store[id]
        ELSE [id |-> evidence_id, source |-> "repo", claim_reference |-> "",
              exists |-> FALSE, confidence |-> 0]]
StoreAfterExists(store, evidence_id) == store

(***************************************************************************)
(* EvidenceGraph (src/src/core/evidence_graph.py)                          *)
(***************************************************************************)
\* link(parent_id, child_id): subscripting the defaultdict creates the entry
GraphLink(graph, parent_id, child_id) ==
    [id \in DOMAIN graph \cup {parent_id} |->
        IF id = parent_id
        THEN (IF parent_id \in DOMAIN graph THEN graph[parent_id] ELSE {}) \cup {child_id}
        ELSE graph[id]]

\* get_links(evidence_id): the value returned, and the edges it leaves
GraphGetLinks(graph, evidence_id) ==
    IF evidence_id \in DOMAIN graph THEN graph[evidence_id] ELSE {}

\* variant: a lookup by subscript, which creates an entry for a missing id
EdgesAfterGetLinks_Subscript(graph, evidence_id) ==
    [id \in DOMAIN graph \cup {evidence_id} |-> IF id \in DOMAIN graph THEN graph[id] ELSE {}]

EdgesAfterGetLinks(graph, evidence_id) == graph

\* clear()
GraphClear(graph) == <<>>

(***************************************************************************)
(* ChiefJusticeNode, the per-criterion stages                              *)
(***************************************************************************)
\* variant: only an explicit denial by the repository counts as missing
_detect_cross_evidence_contradiction_ExplicitOnly(evs, criterion_id) ==
    LET doc_claims_found ==
            /\ "doc" \in DOMAIN evs
            /\ \E i \in 1..Len(evs["doc"]) :
                   LET ev == evs["doc"][i]
                   IN  Matches(criterion_id, ev) /\ ev.found /\ ev.confidence > 60
        explicit_missing ==
            /\ "repo" \in DOMAIN evs
            /\ \E i \in 1..Len(evs["repo"]) :
                   LET ev == evs["repo"][i]
                   IN  Matches(criterion_id, ev) /\ ~ev.found /\ ev.confidence > 60
    IN  IF doc_claims_found /\ explicit_missing
        THEN [has |-> TRUE,
              msg |-> Contradiction("Documentation claims structural existence", criterion_id)]
        ELSE [has |-> FALSE, msg |-> Contradiction("", "")]

\* justice.py 11-44
_detect_cross_evidence_contradiction(evs, criterion_id) ==
    LET doc_claims_found ==
            /\ "doc" \in DOMAIN evs
            /\ \E i \in 1..Len(evs["doc"]) :
                   LET ev == evs["doc"][i]
                   IN  Matches(criterion_id, ev) /\ ev.found /\ ev.confidence > 60
        relevant_repo ==
            /\ "repo" \in DOMAIN evs
            /\ \E i \in 1..Len(evs["repo"]) : Matches(criterion_id, evs["repo"][i])
        explicit_missing ==
            /\ "repo" \in DOMAIN evs
            /\ \E i \in 1..Len(evs["repo"]) :
                   LET ev == evs["repo"][i]
                   IN  Matches(criterion_id, ev) /\ ~ev.found /\ ev.confidence > 60
        implicit_missing ==
            /\ "repo" \in DOMAIN evs
            /\ doc_claims_found /\ ~relevant_repo /\ Len(evs["repo"]) > 0
        repo_evidence_missing == explicit_missing \/ implicit_missing
    IN  IF doc_claims_found /\ repo_evidence_missing
        THEN [has |-> TRUE,
              msg |-> Contradiction("Documentation claims structural existence", criterion_id)]
        ELSE [has |-> FALSE, msg |-> Contradiction("", "")]

\* justice.py 46-66.  score 0 with status "PASSED" is the code's None.
_apply_calibrated_override(max_confidence, criterion_id, remediation, dissent_summary, reasoning_trace) ==
    IF max_confidence < 30
    THEN [score |-> 1, status |-> "OVERRIDE_HEAVY",
          remediation |-> Remediation("CRITICAL MISSING COMPONENT", criterion_id),
          dissent |-> Dissent("Overruled judges", 0),
          trace |-> Append(reasoning_trace,
                       Entry("Calibrated Override Triggered: Heavy penalty (Score 1)", "", "", max_confidence, 0))]
    ELSE IF max_confidence < 70
    THEN [score |-> 2, status |-> "OVERRIDE_MODERATE",
          remediation |-> Remediation("GENERIC IMPLEMENTATION", criterion_id),
          dissent |-> dissent_summary,
          trace |-> Append(reasoning_trace,
                       Entry("Calibrated Override Triggered: Moderate penalty (Cap 2)", "", "", max_confidence, 0))]
    ELSE [score |-> 0, status |-> "PASSED",
          remediation |-> remediation,
          dissent |-> dissent_summary,
          trace |-> Append(reasoning_trace,
                       Entry("Calibrated Override Passed", "", "", max_confidence, 0))]

\* justice.py 68-77.  fired = FALSE is the code's None score.
_apply_security_override(criterion_id, scores, remediation, reasoning_trace) ==
    IF SecurityTable[criterion_id]
    THEN IF scores["Prosecutor"] <= 3
         THEN [fired |-> TRUE, score |-> Min2(scores["TechLead"], 3),
               remediation |-> Remediation("IMMEDIATE FIX REQUIRED", ""),
               trace |-> Append(reasoning_trace,
                            Entry("Security Override Triggered", "Prosecutor", "", scores["Prosecutor"], 3))]
         ELSE [fired |-> FALSE, score |-> 0, remediation |-> remediation,
               trace |-> Append(reasoning_trace, Entry("Security Override Passed", "", "", 0, 0))]
    ELSE [fired |-> FALSE, score |-> 0, remediation |-> remediation, trace |-> reasoning_trace]

\* list.remove(x): the list without its first occurrence of x.
RECURSIVE ListRemove(_, _)
ListRemove(seq, x) ==
    IF seq = <<>> THEN <<>>
    ELSE IF Head(seq) = x THEN Tail(seq)
    ELSE <<Head(seq)>> \o ListRemove(Tail(seq), x)

\* sorted(scores.values())[1] of the three scores
MedianOf(scores) ==
    LET p == scores["Prosecutor"]
        d == scores["Defense"]
        t == scores["TechLead"]
    IN  p + d + t - Max2(p, Max2(d, t)) - Min2(p, Min2(d, t))

\* justice.py 98-104: the first judge, in the order of the scores dict,
\* whose deviation from the median is the largest.
OutlierJudge(scores) ==
    LET median == MedianOf(scores)
        dev(j) == Abs(scores[j] - median)
        k == CHOOSE k \in 1..3 :
                 /\ \A m \in 1..3 : dev(Judges[m]) <= dev(Judges[k])
                 /\ \A m \in 1..(k - 1) : dev(Judges[m]) < dev(Judges[k])
    IN  Judges[k]

\* variant: a low outlier is never pruned
_perform_variance_arbitration_KeepLow(scores, max_confidence, dissent_summary, reasoning_trace) ==
    LET max_score == Max2(scores["Prosecutor"], Max2(scores["Defense"], scores["TechLead"]))
        min_score == Min2(scores["Prosecutor"], Min2(scores["Defense"], scores["TechLead"]))
        variance == max_score - min_score
        outlier_judge == OutlierJudge(scores)
        max_dev == Abs(scores[outlier_judge] - MedianOf(scores))
        outlier_score == scores[outlier_judge]
    IN  IF 2 * variance > 3
        THEN LET dissent == Dissent("Judicial disagreement observed", variance)
             IN  IF max_dev > 1
                 THEN IF outlier_score > 3 /\ max_confidence < 40
                      THEN [valid_judges |-> ListRemove(Judges, outlier_judge),
                            dissent |-> dissent,
                            trace |-> Append(reasoning_trace,
                                Entry("Variance Arbitration: Pruned high outlier", outlier_judge, "", outlier_score, max_confidence))]
                      ELSE [valid_judges |-> Judges,
                            dissent |-> dissent,
                            trace |-> Append(reasoning_trace,
                                Entry("Variance Arbitration: Outlier kept", outlier_judge, "", outlier_score, 0))]
                 ELSE [valid_judges |-> Judges, dissent |-> dissent, trace |-> reasoning_trace]
        ELSE [valid_judges |-> Judges,
              dissent |-> dissent_summary,
              trace |-> Append(reasoning_trace,
                  Entry("Variance Arbitration Passed", "", "", variance, 0))]

\* justice.py 79-122.  The judges list is rebuilt here (line 81): the list
\* left by citation validation is not a parameter.  `arguments` is unused by
\* the code and left out.
_perform_variance_arbitration(scores, max_confidence, dissent_summary, reasoning_trace) ==
    LET valid_judges == Judges
        max_score == Max2(scores["Prosecutor"], Max2(scores["Defense"], scores["TechLead"]))
        min_score == Min2(scores["Prosecutor"], Min2(scores["Defense"], scores["TechLead"]))
        variance == max_score - min_score
        median == MedianOf(scores)
        outlier_judge == OutlierJudge(scores)
        max_dev == Abs(scores[outlier_judge] - median)
        outlier_score == scores[outlier_judge]
    IN  IF 2 * variance > 3        \* variance > 1.5
        THEN LET dissent == Dissent("Judicial disagreement observed", variance)
             IN  IF max_dev > 1
                 THEN IF outlier_score > 3 /\ max_confidence < 40
                      THEN [valid_judges |-> ListRemove(valid_judges, outlier_judge),
                            dissent |-> dissent,
                            trace |-> Append(reasoning_trace,
                                Entry("Variance Arbitration: Pruned high outlier", outlier_judge, "", outlier_score, max_confidence))]
                      ELSE IF outlier_score < 2 /\ max_confidence > 70
                      THEN [valid_judges |-> ListRemove(valid_judges, outlier_judge),
                            dissent |-> dissent,
                            trace |-> Append(reasoning_trace,
                                Entry("Variance Arbitration: Pruned low outlier", outlier_judge, "", outlier_score, max_confidence))]
                      ELSE [valid_judges |-> valid_judges,
                            dissent |-> dissent,
                            trace |-> Append(reasoning_trace,
                                Entry("Variance Arbitration: Outlier kept", outlier_judge, "", outlier_score, 0))]
                 ELSE [valid_judges |-> valid_judges, dissent |-> dissent, trace |-> reasoning_trace]
        ELSE [valid_judges |-> valid_judges,
              dissent |-> dissent_summary,
              trace |-> Append(reasoning_trace,
                  Entry("Variance Arbitration Passed", "", "", variance, 0))]

\* justice.py 136-146: the weighted sum and the total weight
WeightedSum(scores, valid_judges) ==
    SumSeq([k \in 1..Len(valid_judges) |->
              IF valid_judges[k] = "TechLead" THEN 2 * scores[valid_judges[k]]
              ELSE scores[valid_judges[k]]])

TotalWeight(valid_judges) ==
    SumSeq([k \in 1..Len(valid_judges) |-> IF valid_judges[k] = "TechLead" THEN 2 ELSE 1])

\* justice.py 124-154
_apply_functionality_weight_and_median(criterion_id, scores, valid_judges, reasoning_trace) ==
    IF valid_judges = <<>>
    THEN [score |-> 1,
          trace |-> Append(reasoning_trace, Entry("Fallback: All judges pruned", "", "", 1, 0))]
    ELSE IF WeightedTable[criterion_id] /\ "TechLead" \in Range(valid_judges)
    THEN LET final_score == Round(WeightedSum(scores, valid_judges), TotalWeight(valid_judges))
         IN  [score |-> final_score,
              trace |-> Append(reasoning_trace,
                  EntryWithJudges("Functionality Weighting Applied", valid_judges, final_score))]
    ELSE LET valid_scores == [k \in 1..Len(valid_judges) |-> scores[valid_judges[k]]]
             final_score == Round(SumSeq(valid_scores), Len(valid_scores))
         IN  [score |-> final_score,
              trace |-> Append(reasoning_trace,
                  EntryWithJudges("Median Stabilization Applied", valid_judges, final_score))]

(***************************************************************************)
(* ChiefJusticeNode.__call__, the loop body for one criterion              *)
(***************************************************************************)
\* justice.py 169-173: the criterion ids in the order of their first opinion
RECURSIVE CriteriaInOrder(_)
CriteriaInOrder(ops) ==
    IF ops = <<>> THEN <<>>
    ELSE LET rest == CriteriaInOrder(SubSeq(ops, 1, Len(ops) - 1))
             c == ops[Len(ops)].criterion_id
         IN  IF c \in Range(rest) THEN rest ELSE Append(rest, c)

\* by_criterion[criterion_id]
OpinionsOf(ops, criterion_id) == SelectSeq(ops, LAMBDA op : op.criterion_id = criterion_id)

\* justice.py 182-188: a later opinion of the same judge replaces an earlier
\* one; a judge without an opinion keeps the score 3 and has no citations.
HasOpinion(ops, judge) == \E i \in 1..Len(ops) : ops[i].judge = judge
LastOpinion(ops, judge) ==
    ops[CHOOSE i \in 1..Len(ops) :
            /\ ops[i].judge = judge
            /\ \A k \in (i + 1)..Len(ops) : ops[k].judge # judge]

\* variant: a judge without an opinion gets the lowest score
ScoresOf_DefaultOne(ops) ==
    [j \in Range(Judges) |-> IF HasOpinion(ops, j) THEN LastOpinion(ops, j).score ELSE 1]

ScoresOf(ops) ==
    [j \in Range(Judges) |-> IF HasOpinion(ops, j) THEN LastOpinion(ops, j).score ELSE 3]

CitedEvidences(ops, judge) ==
    IF HasOpinion(ops, judge) THEN LastOpinion(ops, judge).cited_evidence_ids ELSE <<>>

\* justice.py 192-203: max confidence over the found evidence that matches
RECURSIVE MaxConfidenceIn(_, _)
MaxConfidenceIn(criterion_id, ev_list) ==
    IF ev_list = <<>> THEN 0
    ELSE LET ev == Head(ev_list)
             rest == MaxConfidenceIn(criterion_id, Tail(ev_list))
         IN  IF Matches(criterion_id, ev) /\ ev.found THEN Max2(ev.confidence, rest) ELSE rest

RECURSIVE MaxOver(_, _, _)
MaxOver(criterion_id, evs, dets) ==
    IF dets = {} THEN 0
    ELSE LET d == CHOOSE d \in dets : TRUE
         IN  Max2(MaxConfidenceIn(criterion_id, evs[d]), MaxOver(criterion_id, evs, dets \ {d}))

MaxConfidence(evs, criterion_id) == MaxOver(criterion_id, evs, DOMAIN evs)

\* justice.py 212-218, one judge: the citations are looked up in order up
\* to the first one the registry does not hold.
RECURSIVE CheckCitations(_, _, _)
CheckCitations(store, citations, i) ==
    IF i > Len(citations) THEN [invalid |-> FALSE, cit |-> "", store |-> store]
    ELSE IF ~RegistryExists(store, citations[i])
         THEN [invalid |-> TRUE, cit |-> citations[i],
               store |-> StoreAfterExists(store, citations[i])]
         ELSE CheckCitations(StoreAfterExists(store, citations[i]), citations, i + 1)

\* justice.py 205-218 (Step 0) over the judges from position k on
RECURSIVE CitationValidation(_, _, _, _, _)
CitationValidation(store, ops, k, valid_judges, reasoning_trace) ==
    IF k > Len(Judges)
    THEN [valid_judges |-> valid_judges, trace |-> reasoning_trace, store |-> store]
    ELSE LET judge == Judges[k]
             chk == CheckCitations(store, CitedEvidences(ops, judge), 1)
         IN  IF chk.invalid
             THEN CitationValidation(chk.store, ops, k + 1,
                      ListRemove(valid_judges, judge),
                      Append(reasoning_trace,
                          Entry("Citation Validation: pruned due to invalid citation", judge, chk.cit, 0, 0)))
             ELSE CitationValidation(chk.store, ops, k + 1, valid_judges, reasoning_trace)

\* justice.py 246-248: the moderate cap on the weighted score wm, and what
\* arbitration arb left in valid_judges and dissent_summary
WeightAndCap(cal, arb, wm) ==
    [score |-> IF cal.status = "OVERRIDE_MODERATE" THEN Min2(wm.score, cal.score) ELSE wm.score,
     remediation |-> cal.remediation, dissent |-> arb.dissent,
     valid_judges |-> arb.valid_judges, trace |-> wm.trace]

\* justice.py 241-248: Step 4 & 5 on the judges that arbitration arb returned
Arbitrated(criterion_id, scores, cal, arb) ==
    WeightAndCap(cal, arb,
        _apply_functionality_weight_and_median(criterion_id, scores, arb.valid_judges, arb.trace))

\* variant: the security override is consulted before the heavy override
ScoreBranch_SecurityFirst(criterion_id, scores, max_confidence, cal, sec, step0_judges) ==
    IF sec.fired
    THEN [score |-> sec.score, remediation |-> sec.remediation, dissent |-> cal.dissent,
          valid_judges |-> step0_judges, trace |-> sec.trace]
    ELSE IF cal.status = "OVERRIDE_HEAVY"
    THEN [score |-> cal.score, remediation |-> cal.remediation, dissent |-> cal.dissent,
          valid_judges |-> step0_judges, trace |-> sec.trace]
    ELSE Arbitrated(criterion_id, scores, cal,
             _perform_variance_arbitration(scores, max_confidence, cal.dissent, sec.trace))

\* justice.py 230-248: the pre-penalty score and what the chosen branch
\* leaves in valid_judges, dissent_summary, remediation, reasoning_trace
ScoreBranch(criterion_id, scores, max_confidence, cal, sec, step0_judges) ==
    IF cal.status = "OVERRIDE_HEAVY"
    THEN [score |-> cal.score, remediation |-> cal.remediation, dissent |-> cal.dissent,
          valid_judges |-> step0_judges, trace |-> sec.trace]
    ELSE IF sec.fired
    THEN [score |-> sec.score, remediation |-> sec.remediation, dissent |-> cal.dissent,
          valid_judges |-> step0_judges, trace |-> sec.trace]
    ELSE Arbitrated(criterion_id, scores, cal,
             _perform_variance_arbitration(scores, max_confidence, cal.dissent, sec.trace))

\* justice.py 250-265: contradiction penalty and the final clamp
ApplyContradiction(evs, criterion_id, br) ==
    LET base_score == br.score
        contra == _detect_cross_evidence_contradiction(evs, criterion_id)
        penalized == Max2(1, base_score - 2)
        after == IF contra.has THEN penalized ELSE base_score
        final_score == Max2(1, Min2(5, after))
        trace1 == IF contra.has
                  THEN Append(br.trace,
                           Entry("Contradiction Penalty Applied", "", criterion_id, base_score - penalized, 0))
                  ELSE br.trace
    IN  [final_score |-> final_score,
         base_score |-> base_score,
         penalty_applied |-> IF contra.has THEN base_score - penalized ELSE 0,
         contradiction_flag |-> contra.has,
         remediation |-> IF contra.has THEN Remediation("RESOLVE CONTRADICTION", criterion_id)
                         ELSE br.remediation,
         trace |-> Append(trace1, Entry("Final Score Locked", "", "", final_score, 5)),
         contradictions |-> IF contra.has THEN <<contra.msg>> ELSE <<>>]

\* justice.py 268-282: the CriterionResult appended for the criterion, what
\* the iteration appends to global_contradictions, and the registry it leaves
CriterionResult(criterion_id, scores, store, br, fin) ==
    [result |->
        [dimension_id |-> criterion_id,
         final_score |-> fin.final_score,
         base_score |-> fin.base_score,
         penalty_applied |-> fin.penalty_applied,
         prosecutor_score |-> scores["Prosecutor"],
         defense_score |-> scores["Defense"],
         tech_lead_score |-> scores["TechLead"],
         dissent_summary |-> br.dissent,
         contradiction_flag |-> fin.contradiction_flag,
         reasoning_trace |-> fin.trace,
         remediation |-> fin.remediation],
     contradictions |-> fin.contradictions,
     store |-> store]

\* justice.py 250-282: from the branch result br on
AfterBranch(evs, criterion_id, scores, store, br) ==
    CriterionResult(criterion_id, scores, store, br, ApplyContradiction(evs, criterion_id, br))

\* justice.py 230-282: from the security override's result sec on
AfterSecurity(evs, criterion_id, scores, max_confidence, step0, cal, sec) ==
    AfterBranch(evs, criterion_id, scores, step0.store,
        ScoreBranch(criterion_id, scores, max_confidence, cal, sec, step0.valid_judges))

\* justice.py 225-282: from the calibrated override's result cal on
AfterCalibrated(evs, criterion_id, scores, max_confidence, step0, cal) ==
    AfterSecurity(evs, criterion_id, scores, max_confidence, step0, cal,
        _apply_security_override(criterion_id, scores, cal.remediation, cal.trace))

\* justice.py 220-282: from the result step0 of citation validation on
AfterCitations(evs, criterion_id, scores, max_confidence, step0) ==
    AfterCalibrated(evs, criterion_id, scores, max_confidence, step0,
        _apply_calibrated_override(max_confidence, criterion_id,
            Remediation("Continue tracking.", ""), NoDissent, step0.trace))

\* justice.py 178-282: one iteration of the loop over by_criterion.
\* result is the CriterionResult appended, contradictions what the iteration
\* appends to global_contradictions, store the registry it leaves.
SynthesizeCriterion(evs, store, criterion_id, ops) ==
    AfterCitations(evs, criterion_id, ScoresOf(ops), MaxConfidence(evs, criterion_id),
        CitationValidation(store, ops, 1, Judges, <<>>))

(***************************************************************************)
(* ChiefJusticeNode.__call__, the report                                   *)
(***************************************************************************)
NoReport ==
    [kind |-> None, overall_score |-> [num |-> 0, den |-> 1], criteria |-> <<>>,
     detected_contradictions |-> <<>>, evidence_summary |-> <<>>]

\* justice.py 175-282: the loop over by_criterion, criteria k.. of `order`
RECURSIVE SynthesizeAll(_, _, _, _, _)

\* the iteration `one` followed by the later iterations `rest`
Followed(one, rest) ==
    [results |-> <<one.result>> \o rest.results,
     contradictions |-> one.contradictions \o rest.contradictions,
     store |-> rest.store]

\* the iterations after `one`, run on the registry it left
Continue(one, ops, evs, order, k) ==
    Followed(one, SynthesizeAll(ops, evs, one.store, order, k + 1))

SynthesizeAll(ops, evs, store, order, k) ==
    IF k > Len(order)
    THEN [results |-> <<>>, contradictions |-> <<>>, store |-> store]
    ELSE Continue(SynthesizeCriterion(evs, store, order[k], OpinionsOf(ops, order[k])),
                  ops, evs, order, k)

\* next((c for c in final_criteria_results if <table>[c.dimension_id]), None):
\* the position of the first such result, 0 for None
FirstNamed(results, table) ==
    IF \E i \in 1..Len(results) : table[results[i].dimension_id]
    THEN CHOOSE i \in 1..Len(results) :
             /\ table[results[i].dimension_id]
             /\ \A k \in 1..(i - 1) : ~table[results[k].dimension_id]
    ELSE 0

\* justice.py 288-295
ArchitectureGuard(results, contradictions) ==
    LET a == FirstNamed(results, ArchitectureTable)
        st == FirstNamed(results, StateTable)
    IN  IF a # 0 /\ st # 0 /\ results[a].final_score >= 4 /\ results[st].final_score <= 2
        THEN [results |->
                 [results EXCEPT ![a] =
                     [@ EXCEPT !.final_score = @ - 1,
                               !.reasoning_trace = Append(@, Entry("Systemic Coherence Penalty", "", "", 1, 0))]],
              contradictions |-> Append(contradictions, Contradiction("Systemic Incoherence", ""))]
        ELSE [results |-> results, contradictions |-> contradictions]

\* justice.py 297-304
TestingGuard(results) ==
    LET t == FirstNamed(results, TestTable)
    IN  IF t # 0 /\ results[t].final_score = 1
        THEN [i \in 1..Len(results) |->
                 IF results[i].final_score = 5 /\ results[i].dimension_id # results[t].dimension_id
                 THEN [results[i] EXCEPT
                          !.final_score = 4,
                          !.reasoning_trace = Append(@, Entry("Systemic Coherence Cap", "", "", 4, 0))]
                 ELSE results[i]]
        ELSE results

\* justice.py 307-308
OverallScore(results) ==
    IF results # <<>>
    THEN [num |-> SumSeq([i \in 1..Len(results) |-> results[i].final_score]), den |-> Len(results)]
    ELSE [num |-> 0, den |-> 1]

\* justice.py 307-322: the AuditReport over the criterion results
Report(evs, results, contradictions) ==
    [kind |-> "AuditReport",
     overall_score |-> OverallScore(results),
     criteria |-> results,
     detected_contradictions |-> contradictions,
     evidence_summary |-> [d \in DOMAIN evs |-> Len(evs[d])]]

\* justice.py 297-322: the second guard and the report, after the first guard g1
Guarded(evs, g1) == Report(evs, TestingGuard(g1.results), g1.contradictions)

\* variant: the overall score is taken before the coherence guards run
BuildReport_OverallBeforeGuards(evs, syn) ==
    [Guarded(evs, ArchitectureGuard(syn.results, syn.contradictions))
        EXCEPT !.overall_score = OverallScore(syn.results)]

\* justice.py 284-322: coherence guards, overall score, the AuditReport
BuildReport(evs, syn) ==
    Guarded(evs, ArchitectureGuard(syn.results, syn.contradictions))

\* justice.py 284-324: the returned dict, after the loop result syn
Returned(evs, syn) ==
    [returned |-> TRUE, report |-> BuildReport(evs, syn), store |-> syn.store]

\* justice.py 156-324: the value returned ({} is NoReport with returned =
\* FALSE) and the registry the call leaves
ChiefJusticeCall(ops, evs, store) ==
    IF ops = <<>>
    THEN [returned |-> FALSE, report |-> NoReport, store |-> store]
    ELSE Returned(evs, SynthesizeAll(ops, evs, store, CriteriaInOrder(ops), 1))

\* The chief_justice node of the graph (graph.py 59, 80-85): the returned
\* dict updates the state; opinions and evidences are only read.
ChiefJustice ==
    LET out == ChiefJusticeCall(opinions, evidences, registry)
    IN  /\ final_report' = IF out.returned THEN out.report ELSE final_report
        /\ registry' = out.store
        /\ prev_report' = final_report
        /\ UNCHANGED <<rubric_dimensions, opinions, evidences, added, outcome, graph_vars, meta_vars>>

Next == ChiefJustice

(***************************************************************************)
(* The state handed to the chief_justice node                              *)
(***************************************************************************)
Scores == 1..5       \* JudicialOpinion.score, state.py 122

JudicialOpinion(judge, criterion_id, score, cited_evidence_ids) ==
    [judge |-> judge, criterion_id |-> criterion_id, score |-> score,
     cited_evidence_ids |-> cited_evidence_ids]

Evidence(id, goal, found, confidence) ==
    [id |-> id, goal |-> goal, found |-> found, confidence |-> confidence]

\* Evidence.to_record, state.py 104-114
SourceOf(detector) ==
    IF detector = "doc" THEN "pdf" ELSE IF detector = "vision" THEN "vision" ELSE "repo"

ToRecord(ev, detector) ==
    [id |-> ev.id, source |-> SourceOf(detector), claim_reference |-> ev.goal,
     exists |-> ev.found, confidence |-> ev.confidence]

\* EvidenceRegistry.add, evidence_registry.py 20-22
RegistryAdd(store, record) ==
    [id \in DOMAIN store \cup {record.id} |-> IF id = record.id THEN record ELSE store[id]]

\* EvidenceAggregatorNode, detectives.py 434-445: every evidence item of
\* every detector is added to the registry, list by list.
RECURSIVE AddAll(_, _, _)
AddAll(store, ev_list, detector) ==
    IF ev_list = <<>> THEN store
    ELSE AddAll(RegistryAdd(store, ToRecord(Head(ev_list), detector)), Tail(ev_list), detector)

RECURSIVE AggregateOver(_, _, _)
AggregateOver(store, evs, dets) ==
    IF dets = {} THEN store
    ELSE LET d == CHOOSE d \in dets : TRUE
         IN  AggregateOver(AddAll(store, evs[d], d), evs, dets \ {d})

AggregatedRegistry(evs) == AggregateOver(<<>>, evs, DOMAIN evs)

\* All sequences over S of length at most n
SeqsUpTo(S, n) == UNION {[1..k -> S] : k \in 0..n}

\* AgentState.add_evidence, state.py 209-214: a detector has a key once it
\* has added evidence; ids are unique per item.
EvidenceDict(lists) ==
    LET present == {d \in DOMAIN lists : lists[d] # <<>>}
    IN  [d \in present |->
            [i \in 1..Len(lists[d]) |->
                Evidence("ev_" \o d \o "_" \o ToString(i), lists[d][i].goal,
                         lists[d][i].found, lists[d][i].confidence)]]

(***************************************************************************)
(* Specification Spec.  The initial states are the states the judges leave *)
(* to the chief_justice node, drawn from seven families:                     *)
(*   InitScores     one criterion, every combination of the three persona  *)
(*                  scores, evidence of the repo and doc detectives;       *)
(*   InitCitations  one criterion, every combination of citation lists;    *)
(*   InitEvidence   one criterion, unanimous personas, evidence of all     *)
(*                  three detectives around the thresholds;                *)
(*   InitRubric     a rubric of several criteria, unanimous personas,      *)
(*                  each criterion backed by repository evidence;          *)
(*   InitPair       a rubric of two criteria on which the personas         *)
(*                  disagree, each backed by repository evidence;          *)
(*   InitSparse     one criterion with opinions of one or two personas;    *)
(*   InitUncovered  a rubric of which some criteria have no opinion.       *)
(***************************************************************************)
MaxCites == 1        \* citations per opinion
MaxEvidence == 1     \* evidence items per detector
MaxCriteria == 3     \* criteria of the rubric

OtherGoal == "Secrets Scanning"     \* matches none of the criterion ids

ThreeOpinions(c, sp, sd, st, cp, cd, ct) ==
    << JudicialOpinion("Prosecutor", c, sp, cp),
       JudicialOpinion("Defense", c, sd, cd),
       JudicialOpinion("TechLead", c, st, ct) >>

\* no registry or graph method has been called by hand; the graph is empty
\* (evidence_graph.py 7-9)
NoOutcome == [op |-> None, arg |-> None, raised |-> None, value |-> None]
\* no run has been recorded for a meta audit (state.py 171-175)
NoMeta ==
    /\ runs = <<>>
    /\ meta_registry = <<>>
    /\ meta_scores = <<>>
    /\ meta_trace = <<>>

NoCalls ==
    /\ added = <<>>
    /\ outcome = NoOutcome
    /\ edges = <<>>
    /\ linked = {}
    /\ NoMeta

\* judges.py 106-139: the judges give one opinion per rubric criterion, so
\* the rubric is the list of the criteria of the opinions
InitState(ops, lists) ==
    /\ rubric_dimensions = CriteriaInOrder(ops)
    /\ opinions = ops
    /\ evidences = EvidenceDict(lists)
    /\ registry = AggregatedRegistry(evidences)
    /\ final_report = NoReport
    /\ prev_report = NoReport
    /\ NoCalls

Items(goals, founds, confs) == [goal : goals, found : founds, confidence : confs]

ScoresIds == {"architecture_pattern", "safe_tool_engineering", "test_criterion"}
ScoresRepoItems(c) ==
    Items({c}, {TRUE}, {20, 50, 90}) \cup Items({c}, {FALSE}, {90})
        \cup Items({OtherGoal}, {TRUE}, {90})
ScoresDocItems(c) == Items({c}, {TRUE}, {90})

InitScores ==
    \E c \in ScoresIds :
    \E sp \in Scores, sd \in Scores, st \in Scores :
    \E repo \in SeqsUpTo(ScoresRepoItems(c), MaxEvidence),
       doc \in SeqsUpTo(ScoresDocItems(c), 1) :
        InitState(ThreeOpinions(c, sp, sd, st, <<>>, <<>>, <<>>), [repo |-> repo, doc |-> doc])

CitationIds == {"security_review", "test_criterion"}
CitationScores == {3, 5}
CitePool == {"ev_repo_1", "made_up_id_99"}

InitCitations ==
    \E c \in CitationIds :
    \E sp \in CitationScores, sd \in CitationScores, st \in CitationScores :
    \E cp \in SeqsUpTo(CitePool, MaxCites), cd \in SeqsUpTo(CitePool, MaxCites),
       ct \in SeqsUpTo(CitePool, MaxCites) :
    \E repo \in SeqsUpTo(Items({c}, {TRUE}, {90}), 1) :
        InitState(ThreeOpinions(c, sp, sd, st, cp, cd, ct), [repo |-> repo])

EvidenceIds == {"security_review", "test_criterion"}
EvidenceRepoItems(c) ==
    Items({c}, {TRUE}, {20, 90}) \cup Items({c}, {FALSE}, {60, 90})
        \cup Items({OtherGoal}, {TRUE}, {90})
EvidenceDocItems(c) ==
    Items({c}, {TRUE}, {60, 90}) \cup Items({c}, {FALSE}, {90})
        \cup Items({OtherGoal}, {TRUE}, {90})
EvidenceVisionItems(c) == Items({c}, {TRUE}, {90})

EvidenceScores == {1, 2, 5}

InitEvidence ==
    \E c \in EvidenceIds :
    \E s \in EvidenceScores :
    \E repo \in SeqsUpTo(EvidenceRepoItems(c), MaxEvidence),
       doc \in SeqsUpTo(EvidenceDocItems(c), MaxEvidence),
       vision \in SeqsUpTo(EvidenceVisionItems(c), MaxEvidence) :
        InitState(ThreeOpinions(c, s, s, s, <<>>, <<>>, <<>>),
                  [repo |-> repo, doc |-> doc, vision |-> vision])

RubricIds ==
    {"architecture_pattern", "graph_orchestration_architecture", "state_management_rigor",
     "test_infrastructure", "test_criterion"}

\* The sequences of distinct criterion ids of length at most MaxCriteria
Rubrics ==
    {r \in SeqsUpTo(RubricIds, MaxCriteria) : \A i, k \in 1..Len(r) : i # k => r[i] # r[k]}

\* judges.py 106-139, 164-195, 220-251: each judge returns one opinion per
\* rubric criterion, in rubric order; the three lists are concatenated
\* (state.py 196).
JudgeOpinions(judge, rubric, score) ==
    [i \in 1..Len(rubric) |-> JudicialOpinion(judge, rubric[i], score[i], <<>>)]

RubricScores == {1, 4, 5}

InitRubric ==
    \E rubric \in Rubrics :
    \E score \in [1..Len(rubric) -> RubricScores] :
        InitState(JudgeOpinions("Prosecutor", rubric, score)
                      \o JudgeOpinions("Defense", rubric, score)
                      \o JudgeOpinions("TechLead", rubric, score),
                  [repo |-> [i \in 1..Len(rubric) |->
                                [goal |-> rubric[i], found |-> TRUE, confidence |-> 90]]])

PairIds == {"repository_structure", "graph_orchestration"}
PairProsecutorScores == {1, 3, 5}
PairOtherScores == {3, 4, 5}

InitPair ==
    \E c1 \in PairIds, c2 \in PairIds :
    \E sp \in [1..2 -> PairProsecutorScores], sd \in [1..2 -> PairOtherScores],
       st \in [1..2 -> PairOtherScores] :
        /\ c1 # c2
        /\ InitState(JudgeOpinions("Prosecutor", <<c1, c2>>, sp)
                          \o JudgeOpinions("Defense", <<c1, c2>>, sd)
                          \o JudgeOpinions("TechLead", <<c1, c2>>, st),
                      [repo |-> << [goal |-> c1, found |-> TRUE, confidence |-> 90],
                                   [goal |-> c2, found |-> TRUE, confidence |-> 90] >>])

SparseIds == {"architecture_pattern", "safe_tool_engineering", "test_criterion"}
SparseRepoItems(c) == Items({c}, {TRUE}, {20, 50, 90})

\* the opinions on c of the judges in `present`, in the order of Judges
SparseOpinions(c, present, score) ==
    SelectSeq([k \in 1..Len(Judges) |->
                  JudicialOpinion(Judges[k], c,
                      IF Judges[k] \in present THEN score[Judges[k]] ELSE 3, <<>>)],
              LAMBDA op : op.judge \in present)

InitSparse ==
    \E c \in SparseIds :
    \E present \in (SUBSET Range(Judges)) \ {{}, Range(Judges)} :
    \E score \in [present -> Scores] :
    \E repo \in SeqsUpTo(SparseRepoItems(c), 1) :
        InitState(SparseOpinions(c, present, score), [repo |-> repo])

\* state.py 186, 196: rubric_dimensions and opinions are separate fields of
\* the state; an opinion carries the criterion_id its judge wrote
\* (judges.py 116-125), so a rubric criterion can be left without opinion.
UncoveredScores == {2, 5}

InitUncovered ==
    \E rubric \in Rubrics :
    \E covered \in (SUBSET (1..Len(rubric))) \ {1..Len(rubric)} :
    \E score \in UncoveredScores :
        /\ rubric_dimensions = rubric
        /\ opinions = SelectSeq(JudgeOpinions("Prosecutor", rubric, [i \in 1..Len(rubric) |-> score])
                                    \o JudgeOpinions("Defense", rubric, [i \in 1..Len(rubric) |-> score])
                                    \o JudgeOpinions("TechLead", rubric, [i \in 1..Len(rubric) |-> score]),
                                LAMBDA op : \E i \in covered : rubric[i] = op.criterion_id)
        /\ evidences = EvidenceDict([repo |-> [i \in 1..Len(rubric) |->
                              [goal |-> rubric[i], found |-> TRUE, confidence |-> 90]]])
        /\ registry = AggregatedRegistry(evidences)
        /\ final_report = NoReport
        /\ prev_report = NoReport
        /\ NoCalls

Init ==
    \/ InitScores \/ InitCitations \/ InitEvidence \/ InitRubric \/ InitPair \/ InitSparse
    \/ InitUncovered

Spec == Init /\ [][Next]_vars

(***************************************************************************)
(* Specification StoreSpec.  A client calls the methods of one             *)
(* EvidenceRegistry in any order, starting from the empty store.           *)
(***************************************************************************)
MaxAdds == 3         \* calls of add

StoreIds == {"ev_repo_1", "ev_doc_1"}
StoreRecords ==
    [id : StoreIds, source : {"repo"}, claim_reference : {"graph_orchestration"},
     exists : BOOLEAN, confidence : {90}]

Call(op, arg, result) ==
    [op |-> op, arg |-> arg, raised |-> result.raised, value |-> result.value]

\* no audit is under way
NoAudit ==
    /\ rubric_dimensions = <<>>
    /\ opinions = <<>>
    /\ evidences = <<>>
    /\ final_report = NoReport
    /\ prev_report = NoReport

InitStore ==
    /\ registry = <<>>
    /\ added = <<>>
    /\ outcome = NoOutcome
    /\ edges = <<>>
    /\ linked = {}
    /\ NoAudit
    /\ NoMeta

\* registry.add(record)
Add ==
    \E record \in StoreRecords :
        /\ Len(added) < MaxAdds
        /\ registry' = RegistryAdd(registry, record)
        /\ added' = Append(added, record)
        /\ outcome' = Call("add", record.id, Returns(None))
        /\ UNCHANGED <<judicial_vars, graph_vars, meta_vars>>

\* registry.get(evidence_id)
Get ==
    \E evidence_id \in StoreIds :
        /\ outcome' = Call("get", evidence_id, RegistryGet(registry, evidence_id))
        /\ UNCHANGED <<registry, added, judicial_vars, graph_vars, meta_vars>>

\* registry.exists(evidence_id)
Exists ==
    \E evidence_id \in StoreIds :
        /\ outcome' = Call("exists", evidence_id, Returns(RegistryExists(registry, evidence_id)))
        /\ registry' = StoreAfterExists(registry, evidence_id)
        /\ UNCHANGED <<added, judicial_vars, graph_vars, meta_vars>>

StoreNext == Add \/ Get \/ Exists

StoreSpec == InitStore /\ [][StoreNext]_vars

(***************************************************************************)
(* Specification GraphSpec.  A client calls the methods of one             *)
(* EvidenceGraph in any order, starting from the empty graph.              *)
(***************************************************************************)
ParentIds == {"claim_graph", "claim_state"}
ChildIds == {"ev_repo_1", "ev_doc_1", "ev_vision_1"}
UnknownId == "claim_unknown"     \* an id that is never linked

InitGraph ==
    /\ edges = <<>>
    /\ linked = {}
    /\ outcome = NoOutcome
    /\ registry = <<>>
    /\ added = <<>>
    /\ NoAudit
    /\ NoMeta

\* graph.link(parent_id, child_id)
Link ==
    \E parent_id \in ParentIds, child_id \in ChildIds :
        /\ edges' = GraphLink(edges, parent_id, child_id)
        /\ linked' = linked \cup {<<parent_id, child_id>>}
        /\ outcome' = Call("link", <<parent_id, child_id>>, Returns(None))
        /\ UNCHANGED <<registry, added, judicial_vars, meta_vars>>

\* graph.get_links(evidence_id)
GetLinks ==
    \E evidence_id \in ParentIds \cup {UnknownId} :
        /\ outcome' = Call("get_links", evidence_id, Returns(GraphGetLinks(edges, evidence_id)))
        /\ edges' = EdgesAfterGetLinks(edges, evidence_id)
        /\ UNCHANGED <<linked, registry, added, judicial_vars, meta_vars>>

\* graph.clear()
Clear ==
    /\ edges' = GraphClear(edges)
    /\ linked' = {}
    /\ outcome' = Call("clear", None, Returns(None))
    /\ UNCHANGED <<registry, added, judicial_vars, meta_vars>>

GraphNext == Link \/ GetLinks \/ Clear

GraphSpec == InitGraph /\ [][GraphNext]_vars

(***************************************************************************)
(* MetaAuditNode (src/src/nodes/meta_audit.py) and                         *)
(* ChiefJusticeNode.meta_override (src/src/nodes/justice.py).              *)
(* Scores of the meta layer are kept in hundredths (4.67 is 467); a        *)
(* stability is the exact fraction [num |-> a, den |-> b].                 *)
(***************************************************************************)
Fraction(num, den) == [num |-> num, den |-> den]

RECURSIVE SumFractions(_)
SumFractions(seq) ==
    IF seq = <<>> THEN Fraction(0, 1)
    ELSE LET rest == SumFractions(Tail(seq))
         IN  Fraction(Head(seq).num * rest.den + rest.num * Head(seq).den,
                      Head(seq).den * rest.den)

\* sum(seq) / len(seq)
MeanFraction(seq) == Fraction(SumFractions(seq).num, SumFractions(seq).den * Len(seq))

\* the opinions of all runs, run after run
RECURSIVE AllOpinions(_)
AllOpinions(rs) == IF rs = <<>> THEN <<>> ELSE Head(rs).opinions \o AllOpinions(Tail(rs))

\* meta_audit.py 61: the identity of a record
Key(record) == record.artifact_path \o ":" \o record.claim_reference

\* meta_audit.py 56-68: the loop reaches a record
HasRecords(rs) == \E i \in 1..Len(rs) : DOMAIN rs[i].registry_state # {}

\* _consolidate_evidence, meta_audit.py 49-77.  For the first record the loop
\* meets, line 66 assigns the attribute seen_in_runs to a copy of the
\* EvidenceRecord; EvidenceRecord (evidence_registry.py 4-11) declares no
\* such field and keeps pydantic's default configuration, under which the
\* assignment raises ValueError.  state.meta_registry and the trace are
\* written at lines 73 and 77 only, after the loop, so the state is left as
\* it was.  Without any record the two loops do nothing.
_consolidate_evidence(rs) ==
    IF HasRecords(rs) THEN Raises("ValueError") ELSE Returns(None)

\* meta_audit.py 81-85: the judges in the order of their first opinion
RECURSIVE JudgesInOrder(_)
JudgesInOrder(ops) ==
    IF ops = <<>> THEN <<>>
    ELSE LET rest == JudgesInOrder(SubSeq(ops, 1, Len(ops) - 1))
             j == ops[Len(ops)].judge
         IN  IF j \in Range(rest) THEN rest ELSE Append(rest, j)

OpinionsBy(ops, judge) == SelectSeq(ops, LAMBDA op : op.judge = judge)

ScoresAcross(ops, judge, criterion_id) ==
    {op.score : op \in {o \in Range(ops) : o.judge = judge /\ o.criterion_id = criterion_id}}

\* meta_audit.py 91-93: max(scores) - min(scores)
ScoreJump(ops, judge, criterion_id) ==
    LET scores == ScoresAcross(ops, judge, criterion_id)
    IN  [kind |-> "score_jump", judge |-> judge, criterion_id |-> criterion_id,
         delta |-> (CHOOSE hi \in scores : \A x \in scores : x <= hi)
                       - (CHOOSE lo \in scores : \A x \in scores : lo <= x)]

\* meta_audit.py 87-98: the entries of one judge, criterion by criterion;
\* variance > 1.5 is 2 * variance > 3
JudgeJumps(ops, judge) ==
    SelectSeq([i \in 1..Len(CriteriaInOrder(OpinionsBy(ops, judge))) |->
                  ScoreJump(ops, judge, CriteriaInOrder(OpinionsBy(ops, judge))[i])],
              LAMBDA entry : 2 * entry.delta > 3)

RECURSIVE JumpsOver(_, _)
JumpsOver(ops, judges) ==
    IF judges = <<>> THEN <<>>
    ELSE JudgeJumps(ops, Head(judges)) \o JumpsOver(ops, Tail(judges))

\* _detect_cross_run_contradictions, meta_audit.py 79-98: the entries appended
_detect_cross_run_contradictions(rs) ==
    JumpsOver(AllOpinions(rs), JudgesInOrder(AllOpinions(rs)))

\* _get_criterion_stability, meta_audit.py 127-137
RelevantKeys(store, criterion_id) ==
    {k \in DOMAIN store :
        /\ store[k].claim_reference # None
        /\ store[k].claim_reference # ""
        /\ Contains(Lower(criterion_id), Lower(store[k].claim_reference))}

\* ev.stability_score (meta_audit.py 130, justice.py 342): EvidenceRecord
\* (evidence_registry.py 4-11) declares no such field and ignores the
\* keyword when it is constructed, so reading it raises AttributeError; an
\* object of another class may carry the attribute (meta_registry is a
\* Dict[str, Any] for meta_override, justice.py 326).
Readable(store, criterion_id) ==
    \A k \in RelevantKeys(store, criterion_id) : "stability_score" \in DOMAIN store[k]

\* the number of criteria of the list handled before the first one whose
\* linked evidence cannot be read
RECURSIVE Handled(_, _)
Handled(store, order) ==
    IF order = <<>> THEN 0
    ELSE IF ~Readable(store, Head(order)) THEN 0
    ELSE 1 + Handled(store, Tail(order))

RECURSIVE StabilitySum(_, _)
StabilitySum(store, keys) ==
    IF keys = {} THEN Fraction(0, 1)
    ELSE LET k == CHOOSE k \in keys : TRUE
         IN  SumFractions(<<store[k].stability_score, StabilitySum(store, keys \ {k})>>)

AverageStability(store, keys) ==
    Fraction(StabilitySum(store, keys).num, StabilitySum(store, keys).den * Cardinality(keys))

_get_criterion_stability(store, criterion_id) ==
    IF RelevantKeys(store, criterion_id) = {} THEN Fraction(1, 1)
    ELSE AverageStability(store, RelevantKeys(store, criterion_id))

\* meta_audit.py 106-113: the mean score of the run's opinions on the criterion
RunAverage(run, criterion_id) ==
    Fraction(SumSeq([i \in 1..Len(OpinionsOf(run.opinions, criterion_id)) |->
                        OpinionsOf(run.opinions, criterion_id)[i].score]),
             Len(OpinionsOf(run.opinions, criterion_id)))

RunsWith(rs, criterion_id) ==
    SelectSeq(rs, LAMBDA run : OpinionsOf(run.opinions, criterion_id) # <<>>)

RunAverages(rs, criterion_id) ==
    [i \in 1..Len(RunsWith(rs, criterion_id)) |-> RunAverage(RunsWith(rs, criterion_id)[i], criterion_id)]

\* meta_audit.py 119-124: round(raw_meta_score * stability_buffer, 2), in hundredths
Normalized(raw, stability_buffer) ==
    Round(100 * raw.num * stability_buffer.num, raw.den * stability_buffer.den)

MetaScore(rs, store, criterion_id) ==
    Normalized(MeanFraction(RunAverages(rs, criterion_id)),
               _get_criterion_stability(store, criterion_id))

\* meta_audit.py 116-125: the criteria the loop handles, in the order of
\* their first opinion, up to the one at which line 119 raises
NormalizedCriteria(rs, store) ==
    SubSeq(CriteriaInOrder(AllOpinions(rs)), 1, Handled(store, CriteriaInOrder(AllOpinions(rs))))

\* _normalize_consensus_scores, meta_audit.py 100-125: the exception raised
\* or None, the scores left and the entries appended
NormalizeRaised(rs, store) ==
    IF Len(NormalizedCriteria(rs, store)) < Len(CriteriaInOrder(AllOpinions(rs)))
    THEN "AttributeError" ELSE None

NormalizedScores(rs, store, scores) ==
    [c \in DOMAIN scores \cup Range(NormalizedCriteria(rs, store)) |->
        IF c \in Range(NormalizedCriteria(rs, store)) THEN MetaScore(rs, store, c) ELSE scores[c]]

NormalizedEntries(rs, store) ==
    [i \in 1..Len(NormalizedCriteria(rs, store)) |->
        [kind |-> "meta_score", criterion_id |-> NormalizedCriteria(rs, store)[i],
         score |-> MetaScore(rs, store, NormalizedCriteria(rs, store)[i]),
         stability |-> _get_criterion_stability(store, NormalizedCriteria(rs, store)[i])]]

\* meta_override, justice.py 326-353, for one criterion: the score left
OverrideKind(store, criterion_id, score) ==
    IF RelevantKeys(store, criterion_id) = {} THEN "none"
    ELSE LET avg == AverageStability(store, RelevantKeys(store, criterion_id))
         IN  IF 10 * avg.num < 7 * avg.den
             THEN (IF 2 * avg.num < avg.den THEN "heavy" ELSE "light")
             ELSE IF avg.num = avg.den /\ score >= 400 THEN "boost" ELSE "none"

Overridden(kind, score) ==
    CASE kind = "heavy" -> Max2(100, score - 50)
      [] kind = "light" -> Max2(100, score - 20)
      [] kind = "boost" -> 500
      [] OTHER -> score

OverriddenScores(store, scores) ==
    [c \in DOMAIN scores |-> Overridden(OverrideKind(store, c, scores[c]), scores[c])]

\* the entries meta_override appends, in the order of the criteria
OverrideEntries(store, scores, order) ==
    SelectSeq([i \in 1..Len(order) |->
                  [kind |-> OverrideKind(store, order[i], scores[order[i]]),
                   criterion_id |-> order[i]]],
              LAMBDA entry : entry.kind # "none")

\* meta_override, justice.py 326-353: the exception raised or None, the
\* score map returned (a copy: the map passed in is left alone) and the
\* trace list, to which the entries are appended in place; order is the
\* key order of the score map
meta_override(scores, store, trace, order) ==
    IF Handled(store, order) < Len(order)
    THEN [raised |-> "AttributeError", scores |-> None,
          trace |-> trace \o OverrideEntries(store, scores, SubSeq(order, 1, Handled(store, order)))]
    ELSE [raised |-> None, scores |-> OverriddenScores(store, scores),
          trace |-> trace \o OverrideEntries(store, scores, order)]

\* meta_audit.py 33-47: steps 3.5 and 4
Finished(rs, store, scores, overridden) ==
    IF overridden.raised # None
    THEN [raised |-> overridden.raised, returned |-> FALSE,
          meta_registry |-> store, meta_scores |-> scores, meta_trace |-> overridden.trace]
    ELSE [raised |-> None, returned |-> TRUE,
          meta_registry |-> store, meta_scores |-> overridden.scores,
          meta_trace |-> Append(overridden.trace, [kind |-> "complete", runs |-> Len(rs)])]

\* MetaAuditNode.__call__, meta_audit.py 27-47, after step 1 has passed;
\* scores and trace are those that steps 2 and 3 leave
Consolidated(rs, store, trace, scores) ==
    IF NormalizeRaised(rs, store) # None
    THEN [raised |-> NormalizeRaised(rs, store), returned |-> FALSE,
          meta_registry |-> store, meta_scores |-> scores, meta_trace |-> trace]
    ELSE Finished(rs, store, scores,
                  meta_override(scores, store, trace, CriteriaInOrder(AllOpinions(rs))))

\* MetaAuditNode.__call__: the exception raised or None, whether a dict was
\* returned, and the meta state the call leaves
MetaAuditCall(rs, store, scores, trace) ==
    IF rs = <<>>
    THEN [raised |-> None, returned |-> FALSE,
          meta_registry |-> store, meta_scores |-> scores, meta_trace |-> trace]
    ELSE IF _consolidate_evidence(rs).raised # None
    THEN [raised |-> _consolidate_evidence(rs).raised, returned |-> FALSE,
          meta_registry |-> store, meta_scores |-> scores, meta_trace |-> trace]
    ELSE Consolidated(rs, store,
                      trace \o _detect_cross_run_contradictions(rs) \o NormalizedEntries(rs, store),
                      NormalizedScores(rs, store, scores))

(***************************************************************************)
(* Specification MetaSpec.  A meta audit is run over up to MaxRuns         *)
(* recorded runs.  One evidence identity is in the registry snapshot of    *)
(* the first runs (in the first run possibly under two ids), another one   *)
(* in that of the last runs.                                               *)
(***************************************************************************)
MaxRuns == 5         \* recorded runs
MaxTrace == 1        \* the meta audit is started while the trace is shorter
MaxScoredRuns == 2   \* recorded runs when the registry handed in is scored

MetaScores == {1, 4, 5}

StableRecord ==
    [id |-> "ev_stable", source |-> "repo", artifact_path |-> "src/core.py",
     claim_reference |-> "graph_orchestration", exists |-> TRUE]
TransientRecord ==
    [id |-> "ev_transient", source |-> "repo", artifact_path |-> "random_file.py",
     claim_reference |-> "state_management", exists |-> TRUE]

\* a second record of the identity of StableRecord, under an id of its own
\* (Evidence ids are drawn per item, state.py 94)
StableCopy == [StableRecord EXCEPT !.id = "ev_stable_2"]

\* the registry snapshot of a run
RegistryState(has_stable, has_copy, has_transient) ==
    [id \in (IF has_stable THEN {"ev_stable"} ELSE {})
                \cup (IF has_copy THEN {"ev_stable_2"} ELSE {})
                \cup (IF has_transient THEN {"ev_transient"} ELSE {}) |->
        IF id = "ev_stable" THEN StableRecord
        ELSE IF id = "ev_stable_2" THEN StableCopy ELSE TransientRecord]

AuditRun(run_id, ops, registry_state) ==
    [run_id |-> run_id, opinions |-> ops, registry_state |-> registry_state]

\* the opinions of run i: in the first run, if asked for, the Prosecutor on
\* state_management_rigor, then the TechLead on graph_orchestration
RunOpinions(i, score, extra) ==
    (IF extra /\ i = 1
     THEN << JudicialOpinion("Prosecutor", "state_management_rigor", 3, <<>>) >>
     ELSE <<>>)
        \o << JudicialOpinion("TechLead", "graph_orchestration", score, <<>>) >>

\* an instance of a subclass of EvidenceRecord that declares the field
\* stability_score; pydantic keeps it as it is in a Dict[str, EvidenceRecord]
Scored(record, stability_score) ==
    [k \in DOMAIN record \cup {"stability_score"} |->
        IF k = "stability_score" THEN stability_score ELSE record[k]]

GivenStabilities == {Fraction(4, 10), Fraction(6, 10), Fraction(8, 10), Fraction(1, 1)}

\* the meta registry handed in with the state (state.py 172): empty
\* ("none"), or holding an EvidenceRecord ("record") or an instance that
\* carries a stability score ("scored")
GivenRegistry(given, stability_score) ==
    [k \in (IF given = "none" THEN {} ELSE {Key(StableRecord)}) |->
        IF given = "scored" THEN Scored(StableRecord, stability_score) ELSE StableRecord]

InitMeta ==
    \E n \in 0..MaxRuns :
    \E first \in 0..n, last \in 0..n :
    \E score \in [1..n -> MetaScores] :
    \E extra \in BOOLEAN, copy \in BOOLEAN :
    \E given \in {"none", "record", "scored"}, stability_score \in GivenStabilities :
        /\ copy => first >= 1
        /\ given = "scored" => n <= MaxScoredRuns /\ first = 0 /\ last = 0
        /\ given # "scored" => stability_score = Fraction(1, 1)
        /\ runs = [i \in 1..n |->
                      AuditRun(i, RunOpinions(i, score[i], extra),
                               RegistryState(i <= first, copy /\ i = 1, i > n - last))]
        /\ meta_registry = GivenRegistry(given, stability_score)
        /\ meta_scores = <<>>
        /\ meta_trace = <<>>
        /\ outcome = NoOutcome
        /\ registry = <<>>
        /\ added = <<>>
        /\ edges = <<>>
        /\ linked = {}
        /\ NoAudit

\* MetaAuditNode()(state)
MetaAudit ==
    LET out == MetaAuditCall(runs, meta_registry, meta_scores, meta_trace)
    IN  /\ Len(meta_trace) < MaxTrace
        /\ meta_registry' = out.meta_registry
        /\ meta_scores' = out.meta_scores
        /\ meta_trace' = out.meta_trace
        /\ outcome' = Call("meta_audit", runs, [raised |-> out.raised, value |-> out.returned])
        /\ UNCHANGED <<runs, registry, added, judicial_vars, graph_vars>>

MetaNext == MetaAudit

MetaSpec == InitMeta /\ [][MetaNext]_vars

(***************************************************************************)
(* Specification OverrideSpec.  ChiefJusticeNode.meta_override is called   *)
(* by hand, as test_meta_override_justice does, on a score map of two      *)
(* criteria and a registry that holds at most one object per criterion:    *)
(* an EvidenceRecord, or an object that carries a stability_score.         *)
(***************************************************************************)
\* the keys of the score map, in the order of insertion
OverrideOrder == << "architecture", "unstable_feat" >>

OverrideScores == {60, 100, 110, 390, 400, 450, 500}

Stabilities == {Fraction(4, 10), Fraction(5, 10), Fraction(6, 10), Fraction(7, 10), Fraction(1, 1)}

\* test_meta_audit_logic.py 102-103: the keyword stability_score is not a
\* field of EvidenceRecord and is dropped by the constructor
TestRecord(id, artifact_path, claim_reference) ==
    [id |-> id, source |-> "repo", artifact_path |-> artifact_path,
     claim_reference |-> claim_reference, exists |-> TRUE]

\* an object with the two attributes meta_override reads
ScoredRecord(claim_reference, stability_score) ==
    [claim_reference |-> claim_reference, stability_score |-> stability_score]

\* what the registry may hold for the two criteria
StableEntries ==
    {TestRecord("1", "p", "architecture")}
        \cup {ScoredRecord("architecture", s) : s \in Stabilities}
UnstableEntries ==
    {TestRecord("2", "p2", "unstable_feat")}
        \cup {ScoredRecord("unstable_feat", s) : s \in Stabilities}

\* the registry with the keys given
OverrideRegistry(keys, stable, unstable) ==
    [k \in keys |-> IF k = "stable" THEN stable ELSE unstable]

InitOverride ==
    \E x \in OverrideScores, y \in OverrideScores :
    \E stable \in StableEntries, unstable \in UnstableEntries :
    \E keys \in SUBSET {"stable", "unstable"} :
        /\ meta_scores = ("architecture" :> x @@ "unstable_feat" :> y)
        /\ meta_registry = OverrideRegistry(keys, stable, unstable)
        /\ meta_trace = <<>>
        /\ runs = <<>>
        /\ outcome = NoOutcome
        /\ registry = <<>>
        /\ added = <<>>
        /\ edges = <<>>
        /\ linked = {}
        /\ NoAudit

\* scores, trace = chief_justice.meta_override(state.meta_scores,
\* state.meta_registry, trace); one call is followed
MetaOverride ==
    LET out == meta_override(meta_scores, meta_registry, meta_trace, OverrideOrder)
    IN  /\ outcome.op = None
        /\ meta_trace' = out.trace
        /\ outcome' = Call("meta_override", meta_scores,
                           [raised |-> out.raised, value |-> out.scores])
        /\ UNCHANGED <<meta_scores, meta_registry, runs, registry, added,
                       judicial_vars, graph_vars>>

OverrideNext == MetaOverride

OverrideSpec == InitOverride /\ [][OverrideNext]_vars

(***************************************************************************)
(* Specification MergeSpec.  The evidences channel of AgentState           *)
(* (state.py 193) starts empty; each detective output that arrives is      *)
(* folded into it by the reducer merge_dicts.  A detective returns one     *)
(* key with a list of new Evidence items (detectives.py 285-411), and may  *)
(* be run again.                                                           *)
(***************************************************************************)
MaxMerges == 3       \* detective outputs merged
MaxItems == 2        \* evidence items in one detective output

Detectors == {"repo", "doc", "vision"}

\* an Evidence as a detective builds it: detector keeps its default
\* (state.py 102)
Collected(id) ==
    [id |-> id, goal |-> "graph_orchestration", found |-> TRUE, confidence |-> 90,
     detector |-> "unknown"]

ListOf(dict, k) == IF k \in DOMAIN dict THEN dict[k] ELSE <<>>

\* {"evidences": {k: evidences_list}} with n items, whose ids follow those
\* the channel already holds for k (ids are drawn per item, state.py 94)
DetectiveOutput(channel, k, n) ==
    k :> [i \in 1..n |-> Collected("ev_" \o k \o "_" \o ToString(Len(ListOf(channel, k)) + i))]

\* state.py 79-82: every item of the list is attributed to the key
Attributed(v, k) == [i \in 1..Len(v) |-> [v[i] EXCEPT !.detector = k]]

\* the commented-out reducer of state.py 53, operator.ior: the right-hand
\* list replaces the left-hand one
merge_dicts_Ior(left, right) ==
    [res   |-> [k \in DOMAIN left \cup DOMAIN right |->
                   IF k \in DOMAIN right THEN right[k] ELSE left[k]],
     left  |-> left,
     right |-> right]

\* merge_dicts, state.py 75-88: the dict returned, and the two arguments as
\* the call leaves them (res is a copy of left and res[k] + v is a new
\* list, so left keeps its lists; the items of right are the objects
\* attributed at line 82)
merge_dicts(left, right) ==
    [res   |-> [k \in DOMAIN left \cup DOMAIN right |->
                   IF k \in DOMAIN right
                   THEN ListOf(left, k) \o Attributed(right[k], k)
                   ELSE left[k]],
     left  |-> left,
     right |-> [k \in DOMAIN right |-> Attributed(right[k], k)]]

InitMerge == InitStore

\* a detective node returns and the reducer is applied to the channel
Merge ==
    \E k \in Detectors, n \in 0..MaxItems :
        LET right == DetectiveOutput(evidences, k, n)
            out == merge_dicts(evidences, right)
        IN  /\ Len(added) < MaxMerges
            /\ evidences' = out.res
            /\ added' = Append(added, right)
            /\ outcome' = Call("merge_dicts", [left |-> evidences, right |-> right],
                               [raised |-> None, value |-> out])
            /\ UNCHANGED <<rubric_dimensions, opinions, final_report, prev_report,
                           registry, graph_vars, meta_vars>>

\* a node returns an update without evidence: merge_dicts(left, {})
MergeNothing ==
    /\ Len(added) < MaxMerges
    /\ evidences' = merge_dicts(evidences, <<>>).res
    /\ added' = Append(added, <<>>)
    /\ outcome' = Call("merge_dicts", [left |-> evidences, right |-> <<>>],
                       [raised |-> None, value |-> merge_dicts(evidences, <<>>)])
    /\ UNCHANGED <<rubric_dimensions, opinions, final_report, prev_report,
                   registry, graph_vars, meta_vars>>

MergeNext == Merge \/ MergeNothing

MergeSpec == InitMerge /\ [][MergeNext]_vars

(***************************************************************************)
(* Properties of the returned AuditReport                                  *)
(***************************************************************************)
HasReport == final_report.kind = "AuditReport"
Reported == final_report.criteria
Clamp(x) == Max2(1, Min2(5, x))

\* The evidence items of one detector ({} when the detector has no key)
EvidenceOf(detector) ==
    IF detector \in DOMAIN evidences THEN Range(evidences[detector]) ELSE {}
AllEvidence == UNION {Range(evidences[d]) : d \in DOMAIN evidences}

\* Some evidence item matching the criterion has found = true
MatchingFound(c) == \E ev \in AllEvidence : Matches(c, ev) /\ ev.found

\* The contradiction condition in the words of the specification
ClaimedContradiction(c) ==
    /\ \E ev \in EvidenceOf("doc") : Matches(c, ev) /\ ev.found /\ ev.confidence > 60
    /\ \/ \E ev \in EvidenceOf("repo") : Matches(c, ev) /\ ~ev.found /\ ev.confidence > 60
       \/ /\ EvidenceOf("repo") # {}
          /\ \A ev \in EvidenceOf("repo") : ~Matches(c, ev)

\* The persona's opinion on the criterion cites an id the registry lacks
CitesInvalid(c, judge) ==
    \E id \in Range(CitedEvidences(OpinionsOf(opinions, c), judge)) : id \notin DOMAIN registry

TraceKinds(r) == {r.reasoning_trace[k].kind : k \in 1..Len(r.reasoning_trace)}

ArbitrationKinds ==
    {"Variance Arbitration: Pruned high outlier", "Variance Arbitration: Pruned low outlier",
     "Variance Arbitration: Outlier kept", "Variance Arbitration Passed",
     "Fallback: All judges pruned", "Functionality Weighting Applied",
     "Median Stabilization Applied"}

\* The results of per-criterion synthesis, before the coherence guards
Synthesized ==
    SynthesizeAll(opinions, evidences, registry, CriteriaInOrder(opinions), 1).results

\* C1: every CriterionResult of the returned report has finalScore in 1..5
\* and finalScore = clamp(baseScore - penaltyApplied, 1, 5).
C1_FinalIsClampedBaseMinusPenalty ==
    \A i \in 1..Len(Reported) :
        /\ Reported[i].final_score \in 1..5
        /\ Reported[i].final_score = Clamp(Reported[i].base_score - Reported[i].penalty_applied)

\* The opinions with the score of `judge` on criterion c replaced by s
WithScore(c, judge, s) ==
    [k \in 1..Len(opinions) |->
        IF opinions[k].criterion_id = c /\ opinions[k].judge = judge
        THEN [opinions[k] EXCEPT !.score = s] ELSE opinions[k]]

\* C2: a persona citing an evidence id the registry lacks is excluded from
\* scoring, so the base score does not depend on that persona's score, and
\* the trace names the persona with the invalid citation.
C2_InvalidCitationExcludedFromScoring ==
    \A i \in 1..Len(Reported) :
        \A k \in 1..Len(Judges) :
            LET r == Reported[i]
                c == r.dimension_id
            IN  CitesInvalid(c, Judges[k]) =>
                  /\ \E e \in Range(r.reasoning_trace) :
                        /\ e.kind = "Citation Validation: pruned due to invalid citation"
                        /\ e.judge = Judges[k]
                  /\ \A s \in Scores :
                        SynthesizeCriterion(evidences, registry, c,
                            OpinionsOf(WithScore(c, Judges[k], s), c)).result.base_score
                          = r.base_score

\* C3: a criterion without matching evidence with found = true has
\* finalScore 1 and the missing-artifact remediation in the returned report,
\* whatever the persona scores.
C3_FactOverride ==
    \A i \in 1..Len(Reported) :
        ~MatchingFound(Reported[i].dimension_id) =>
            /\ Reported[i].final_score = 1
            /\ Reported[i].remediation =
                   Remediation("CRITICAL MISSING COMPONENT", Reported[i].dimension_id)

C3_Witness ==
    /\ HasReport
    /\ \E i \in 1..Len(Reported) :
          /\ ~MatchingFound(Reported[i].dimension_id)
          /\ Reported[i].prosecutor_score = 5
          /\ Reported[i].defense_score = 5
          /\ Reported[i].tech_lead_score = 5
          /\ Reported[i].final_score = 1

\* The security rule for one result, given when its second part applies
SecurityRule(r, second_part_applies) ==
    (SecurityTable[r.dimension_id] /\ r.prosecutor_score <= 3) =>
        /\ r.final_score <= 3
        /\ second_part_applies =>
              /\ r.base_score = Min2(r.tech_lead_score, 3)
              /\ TraceKinds(r) \cap ArbitrationKinds = {}
              /\ r.final_score = IF ClaimedContradiction(r.dimension_id)
                                 THEN Max2(1, r.base_score - 2) ELSE r.base_score

\* C4: on a security/safety criterion with Prosecutor <= 3 the final score
\* is at most 3, and when matching found evidence exists (no fact override)
\* the base score is min(TechLead, 3), arbitration and weighting are skipped
\* and the contradiction penalty still applies.
C4_SecurityOverride ==
    \A i \in 1..Len(Reported) :
        SecurityRule(Reported[i], MatchingFound(Reported[i].dimension_id))

\* C5: a contradiction is flagged exactly under the stated condition on the
\* doc and repo evidence; when flagged the final score is max(1, base - 2),
\* the penalty is base - final, the remediation describes the conflict and
\* the text is in detected_contradictions; when not flagged the penalty is 0.
C5_ContradictionPenalty ==
    \A i \in 1..Len(Reported) :
        LET r == Reported[i]
            flagged == ClaimedContradiction(r.dimension_id)
        IN  /\ r.contradiction_flag = flagged
            /\ flagged =>
                  /\ r.final_score = Max2(1, r.base_score - 2)
                  /\ r.penalty_applied = r.base_score - r.final_score
                  /\ r.remediation = Remediation("RESOLVE CONTRADICTION", r.dimension_id)
                  /\ Contradiction("Documentation claims structural existence", r.dimension_id)
                         \in Range(final_report.detected_contradictions)
            /\ ~flagged => r.penalty_applied = 0

\* a contradiction by repository evidence that addresses other claims only
C5_Witness ==
    /\ HasReport
    /\ \E i \in 1..Len(Reported) :
          /\ ClaimedContradiction(Reported[i].dimension_id)
          /\ \A ev \in EvidenceOf("repo") : ~Matches(Reported[i].dimension_id, ev)
          /\ Reported[i].base_score = 5
          /\ Reported[i].final_score = 3
          /\ Reported[i].penalty_applied = 2

\* C6: every architecture-named criterion synthesized at >= 4, while some
\* state-named criterion is synthesized at <= 2, is reported with its final
\* score reduced by exactly 1, and detected_contradictions has the
\* systemic-incoherence entry.
C6_ArchitectureVsState ==
    HasReport =>
        \A a \in 1..Len(Synthesized) :
            ( /\ ArchitectureTable[Synthesized[a].dimension_id]
              /\ Synthesized[a].final_score >= 4
              /\ \E st \in 1..Len(Synthesized) :
                    /\ StateTable[Synthesized[st].dimension_id]
                    /\ Synthesized[st].final_score <= 2 )
            => /\ Reported[a].final_score = Synthesized[a].final_score - 1
               /\ Contradiction("Systemic Incoherence", "")
                      \in Range(final_report.detected_contradictions)

\* C7: when any test-named criterion of the report has final score 1, no
\* other criterion of the report has final score 5.
C7_TestingCap ==
    \A t \in 1..Len(Reported) :
        (TestTable[Reported[t].dimension_id] /\ Reported[t].final_score = 1) =>
            \A i \in 1..Len(Reported) : i # t => Reported[i].final_score # 5

\* C8: overall_score is the mean of the final scores as they stand in the
\* report: overall_score * |criteria| = sum of the reported final scores.
C8_OverallAfterCoherence ==
    (HasReport /\ Reported # <<>>) =>
        /\ final_report.overall_score.den = Len(Reported)
        /\ final_report.overall_score.num =
               SumSeq([i \in 1..Len(Reported) |-> Reported[i].final_score])

\* a report in which a coherence guard changed a final score
C8_Witness ==
    /\ HasReport
    /\ \E i \in 1..Len(Reported) : Reported[i].final_score # Synthesized[i].final_score

\* C9: a second call on the same state returns the same report as the
\* first, and a call leaves the registry as the aggregator built it.
C9_Idempotence ==
    /\ registry = AggregatedRegistry(evidences)
    /\ prev_report.kind = "AuditReport" => final_report = prev_report

\* two calls have been made on a state where an opinion cites a missing id
C9_Witness ==
    /\ prev_report.kind = "AuditReport"
    /\ final_report.kind = "AuditReport"
    /\ \E i \in 1..Len(Reported) :
          \E k \in 1..Len(Judges) : CitesInvalid(Reported[i].dimension_id, Judges[k])

\* C10: a criterion on which all three personas cite an id the registry
\* lacks has final score 1.
C10_AllPrunedLocksOne ==
    \A i \in 1..Len(Reported) :
        (\A k \in 1..Len(Judges) : CitesInvalid(Reported[i].dimension_id, Judges[k]))
            => Reported[i].final_score = 1

(***************************************************************************)
(* Variance arbitration and weighting                                      *)
(***************************************************************************)
\* The score the report records for a persona
ReportedScore(r, judge) ==
    IF judge = "Prosecutor" THEN r.prosecutor_score
    ELSE IF judge = "Defense" THEN r.defense_score
    ELSE r.tech_lead_score

\* The middle one of the three reported scores
ReportedMedian(r) ==
    CHOOSE m \in {r.prosecutor_score, r.defense_score, r.tech_lead_score} :
        /\ Cardinality({j \in Range(Judges) : ReportedScore(r, j) <= m}) >= 2
        /\ Cardinality({j \in Range(Judges) : ReportedScore(r, j) >= m}) >= 2

ReportedDeviation(r, judge) == Abs(ReportedScore(r, judge) - ReportedMedian(r))

ReportedSpread(r) ==
    LET S == {r.prosecutor_score, r.defense_score, r.tech_lead_score}
    IN  (CHOOSE x \in S : \A y \in S : y <= x) - (CHOOSE x \in S : \A y \in S : x <= y)

\* judge is the one persona deviating most from the median, and scores 1
SoleLowOutlier(r, judge) ==
    /\ ReportedScore(r, judge) = 1
    /\ \A other \in Range(Judges) \ {judge} :
           ReportedDeviation(r, other) < ReportedDeviation(r, judge)

\* The premise of C11 for result r and persona judge
LowOutlierCase(r, judge) ==
    /\ ~SecurityTable[r.dimension_id]
    /\ ReportedSpread(r) > 1
    /\ SoleLowOutlier(r, judge)
    /\ \E ev \in AllEvidence :
           Matches(r.dimension_id, ev) /\ ev.found /\ ev.confidence > 70

\* What C11 concludes besides the base score
LowOutlierRecorded(r, judge) ==
    /\ \E e \in Range(r.reasoning_trace) :
           e.kind = "Variance Arbitration: Pruned low outlier" /\ e.judge = judge
    /\ r.dissent_summary # NoDissent

\* Sum of the reported scores of the personas other than judge
OthersSum(r, judge) ==
    r.prosecutor_score + r.defense_score + r.tech_lead_score - ReportedScore(r, judge)

\* C11 as stated: in the low-outlier case the persona is excluded, the base
\* score is the rounded mean of the other two, the pruning is in the trace
\* and the dissent summary is populated.
C11_LowOutlier_AsStated ==
    \A i \in 1..Len(Reported) :
        \A judge \in Range(Judges) :
            LowOutlierCase(Reported[i], judge) =>
                /\ LowOutlierRecorded(Reported[i], judge)
                /\ Reported[i].base_score = Round(OthersSum(Reported[i], judge), 2)

\* C11 amended: the base score is the rounded mean of the other two unless
\* the criterion is architecture/orchestration-named and TechLead remains;
\* then it is the rounded mean with TechLead counted twice.
C11_LowOutlier ==
    \A i \in 1..Len(Reported) :
        \A judge \in Range(Judges) :
            LowOutlierCase(Reported[i], judge) =>
                /\ LowOutlierRecorded(Reported[i], judge)
                /\ Reported[i].base_score =
                       IF WeightedTable[Reported[i].dimension_id] /\ judge # "TechLead"
                       THEN Round(OthersSum(Reported[i], judge) + Reported[i].tech_lead_score, 3)
                       ELSE Round(OthersSum(Reported[i], judge), 2)

\* scores [5, 5, 1] with strong evidence give 5
C11_Witness ==
    /\ HasReport
    /\ \E i \in 1..Len(Reported) :
          /\ LowOutlierCase(Reported[i], "TechLead")
          /\ Reported[i].prosecutor_score = 5
          /\ Reported[i].defense_score = 5
          /\ Reported[i].base_score = 5

\* The weighting entry of a result's trace (justice.py 147, 153), if any
WeightingKinds == {"Functionality Weighting Applied", "Median Stabilization Applied"}
HasWeightingEntry(r) == \E e \in Range(r.reasoning_trace) : e.kind \in WeightingKinds
WeightingEntry(r) == CHOOSE e \in Range(r.reasoning_trace) : e.kind \in WeightingKinds

\* No override locks or caps the score of r
NoOverride(r) ==
    /\ HasWeightingEntry(r)
    /\ "Calibrated Override Passed" \in TraceKinds(r)

\* The personas remaining at the weighting stage
Remaining(r) == Range(WeightingEntry(r).judges)

\* The exact mean of C12 as a fraction: TechLead counts twice on an
\* architecture/orchestration criterion when it remains.
TechLeadWeight(r) ==
    IF WeightedTable[r.dimension_id] /\ "TechLead" \in Remaining(r) THEN 2 ELSE 1
MeanNum(r) ==
    (IF "Prosecutor" \in Remaining(r) THEN r.prosecutor_score ELSE 0)
      + (IF "Defense" \in Remaining(r) THEN r.defense_score ELSE 0)
      + (IF "TechLead" \in Remaining(r) THEN TechLeadWeight(r) * r.tech_lead_score ELSE 0)
MeanDen(r) ==
    Cardinality(Remaining(r) \ {"TechLead"})
      + (IF "TechLead" \in Remaining(r) THEN TechLeadWeight(r) ELSE 0)

ExactHalf(r) == 2 * (MeanNum(r) % MeanDen(r)) = MeanDen(r)
RoundedUp(r) == r.base_score * MeanDen(r) > MeanNum(r)

\* C12: when no override applies, the base score is within 1/2 of the
\* (weighted) mean of the remaining personas' scores, and exact halves are
\* rounded the same way: two criteria of a report whose means are exact
\* halves are both rounded up or both rounded down.
C12_RoundedMean ==
    \A i \in 1..Len(Reported) :
        NoOverride(Reported[i]) =>
            /\ 2 * Abs(Reported[i].base_score * MeanDen(Reported[i]) - MeanNum(Reported[i]))
                   <= MeanDen(Reported[i])
            /\ \A k \in 1..Len(Reported) :
                   ( /\ NoOverride(Reported[k])
                     /\ ExactHalf(Reported[i])
                     /\ ExactHalf(Reported[k]) )
                   => (RoundedUp(Reported[i]) <=> RoundedUp(Reported[k]))

(***************************************************************************)
(* Reasoning trace                                                         *)
(***************************************************************************)
\* The kinds of entry of each pipeline stage, in pipeline order
StageKinds ==
    << {"Citation Validation: pruned due to invalid citation"},
       {"Calibrated Override Triggered: Heavy penalty (Score 1)",
        "Calibrated Override Triggered: Moderate penalty (Cap 2)",
        "Calibrated Override Passed"},
       {"Security Override Triggered", "Security Override Passed"},
       {"Variance Arbitration: Pruned high outlier", "Variance Arbitration: Pruned low outlier",
        "Variance Arbitration: Outlier kept", "Variance Arbitration Passed"},
       {"Fallback: All judges pruned", "Functionality Weighting Applied",
        "Median Stabilization Applied"},
       {"Contradiction Penalty Applied"},
       {"Final Score Locked"} >>

\* C13: synthesis of a criterion leaves exactly one trace entry per pipeline
\* stage, in pipeline order, whether or not the stage fires.
C13_OneEntryPerStage ==
    HasReport =>
        \A i \in 1..Len(Synthesized) :
            /\ Len(Synthesized[i].reasoning_trace) = Len(StageKinds)
            /\ \A k \in 1..Len(StageKinds) :
                   Synthesized[i].reasoning_trace[k].kind \in StageKinds[k]

(***************************************************************************)
(* Sparse input                                                            *)
(***************************************************************************)
\* The criteria that have opinions, and the personas without one
OpinionCriteria == {opinions[k].criterion_id : k \in 1..Len(opinions)}
Absent(c, judge) == ~HasOpinion(OpinionsOf(opinions, c), judge)
SomeAbsent == \E c \in OpinionCriteria : \E judge \in Range(Judges) : Absent(c, judge)

\* The opinions, followed by an opinion with score 3 and no citation for
\* every persona that has none on a criterion
NeutralOpinions ==
    LET order == CriteriaInOrder(opinions)
        all == [n \in 1..(3 * Len(order)) |->
                   JudicialOpinion(Judges[((n - 1) % 3) + 1], order[((n - 1) \div 3) + 1], 3, <<>>)]
    IN  SelectSeq(all, LAMBDA op : Absent(op.criterion_id, op.judge))
CompletedOpinions == opinions \o NeutralOpinions

\* C14: every criterion with an opinion gets a CriterionResult; a persona
\* without an opinion is reported with score 3, and the report is the one
\* returned when each absent persona gives an explicit opinion of score 3.
C14_AbsentIsNeutral ==
    HasReport =>
        /\ Len(Reported) = Cardinality(OpinionCriteria)
        /\ \A i \in 1..Len(Reported) :
               \A judge \in Range(Judges) :
                   Absent(Reported[i].dimension_id, judge) => ReportedScore(Reported[i], judge) = 3
        /\ SomeAbsent =>
               final_report = ChiefJusticeCall(CompletedOpinions, evidences, registry).report

\* only the Prosecutor gave an opinion, of score 5
C14_Witness ==
    /\ HasReport
    /\ \E i \in 1..Len(Reported) :
          /\ Absent(Reported[i].dimension_id, "Defense")
          /\ Absent(Reported[i].dimension_id, "TechLead")
          /\ Reported[i].prosecutor_score = 5
          /\ Reported[i].defense_score = 3
          /\ Reported[i].tech_lead_score = 3
          /\ Reported[i].base_score = 4

(***************************************************************************)
(* Report order                                                            *)
(***************************************************************************)
\* The opinion list with the opinions at positions k and k + 1 exchanged
Swapped(k) ==
    [n \in 1..Len(opinions) |->
        IF n = k THEN opinions[k + 1] ELSE IF n = k + 1 THEN opinions[k] ELSE opinions[n]]

\* The criteria of a report in order, each with its final score
OrderAndScores(report) ==
    [i \in 1..Len(report.criteria) |->
        <<report.criteria[i].dimension_id, report.criteria[i].final_score>>]

\* C15: the order of the CriterionResults and every final score are the
\* same for every permutation of the opinion list; in particular they do
\* not change when two neighbouring opinions are exchanged.
C15_OrderIndependent ==
    HasReport =>
        \A k \in 1..(Len(opinions) - 1) :
            OrderAndScores(ChiefJusticeCall(Swapped(k), evidences, registry).report)
                = OrderAndScores(final_report)

(***************************************************************************)
(* Rubric coverage                                                         *)
(***************************************************************************)
\* C16: the call returns a report whatever the opinions are, also for an
\* empty opinion list, and a returned report holds exactly one
\* CriterionResult for each criterion of the rubric, with or without
\* opinions on it.
C16_OneResultPerRubricCriterion ==
    /\ ChiefJusticeCall(opinions, evidences, registry).returned
    /\ HasReport =>
          /\ Len(Reported) = Len(rubric_dimensions)
          /\ \A c \in Range(rubric_dimensions) :
                Cardinality({i \in 1..Len(Reported) : Reported[i].dimension_id = c}) = 1

(***************************************************************************)
(* Evidence Store                                                          *)
(***************************************************************************)
\* the ids handed to add so far
AddedIds == {added[i].id : i \in 1..Len(added)}

\* the ids handed to add before the last call of add
AddedBefore == {added[i].id : i \in 1..(Len(added) - 1)}

\* the record first handed to add under the id
FirstAdded(id) == added[CHOOSE i \in 1..Len(added) :
                            /\ added[i].id = id
                            /\ \A k \in 1..(i - 1) : added[k].id # id]

\* C17: add of an id already present fails with DuplicateIdError, and the
\* store holds under every id the record that was first added under it.
C17_AppendOnly ==
    /\ (outcome.op = "add" /\ outcome.arg \in AddedBefore) => outcome.raised = "DuplicateIdError"
    /\ \A id \in AddedIds : RegistryGet(registry, id) = Returns(FirstAdded(id))

\* the store that the calls of add made so far build
RECURSIVE StoreOf(_)
StoreOf(records) ==
    IF records = <<>> THEN <<>>
    ELSE RegistryAdd(StoreOf(SubSeq(records, 1, Len(records) - 1)), records[Len(records)])

\* C18: get of an id never added fails with the lookup error, exists does
\* not fail and answers true exactly for the ids added, and the store is the
\* one the calls of add built: neither get nor exists changes it.
C18_Lookup ==
    /\ (outcome.op = "get" /\ outcome.arg \notin AddedIds) => outcome.raised = "KeyError"
    /\ outcome.op = "exists" =>
          /\ outcome.raised = None
          /\ outcome.value = (outcome.arg \in AddedIds)
    /\ registry = StoreOf(added)

\* a get of an id never added, after another id was added
C18_Witness ==
    /\ outcome.op = "get"
    /\ outcome.arg \notin AddedIds
    /\ AddedIds # {}
    /\ outcome.raised = "KeyError"
    /\ registry = StoreOf(added)

(***************************************************************************)
(* Claim Graph                                                             *)
(***************************************************************************)
\* the evidence ids linked to the claim since the last clear
LinkedTo(c) == {pair[2] : pair \in {q \in linked : q[1] = c}}

\* the claims linked to some evidence since the last clear
LinkedClaims == {pair[1] : pair \in linked}

\* C19: get_links of a claim is the set of the evidence ids linked to it
\* since the last clear, empty for a claim never linked; linking a pair a
\* second time changes nothing; get_links never fails and adds no entry, so
\* the graph has entries for the linked claims only; after clear no claim
\* has links.
C19_ClaimGraph ==
    /\ \A c \in ParentIds \cup {UnknownId} : GraphGetLinks(edges, c) = LinkedTo(c)
    /\ \A parent_id \in ParentIds, child_id \in ChildIds :
          GraphLink(GraphLink(edges, parent_id, child_id), parent_id, child_id)
              = GraphLink(edges, parent_id, child_id)
    /\ outcome.op = "get_links" =>
          /\ outcome.raised = None
          /\ outcome.value = LinkedTo(outcome.arg)
    /\ DOMAIN edges = LinkedClaims
    /\ outcome.op = "clear" =>
          \A c \in ParentIds \cup {UnknownId} : GraphGetLinks(edges, c) = {}

\* get_links of a claim never linked, asked while another claim has two links
C19_Witness ==
    /\ outcome.op = "get_links"
    /\ outcome.arg \notin LinkedClaims
    /\ outcome.value = {}
    /\ outcome.arg \notin DOMAIN edges
    /\ \E c \in ParentIds : Cardinality(GraphGetLinks(edges, c)) = 2

(***************************************************************************)
(* Meta stability                                                          *)
(***************************************************************************)
\* the records of the registry snapshots of all runs
RunRecords ==
    UNION {{runs[i].registry_state[id] : id \in DOMAIN runs[i].registry_state} : i \in 1..Len(runs)}

\* the number of runs whose snapshot holds a record of the identity
Occurrences(key) ==
    Cardinality({i \in 1..Len(runs) :
                    \E id \in DOMAIN runs[i].registry_state : Key(runs[i].registry_state[id]) = key})

FlaggedTransient(claim_reference) ==
    \E i \in 1..Len(meta_trace) :
        /\ meta_trace[i].kind = "transient"
        /\ meta_trace[i].claim_reference = claim_reference

\* C20: after a meta audit over N >= 1 runs every evidence identity has a
\* meta-registry entry whose stability score is occurrences / N, and the
\* identity is flagged transient in the trace exactly when that score is
\* below 0.6.
C20_MetaStability ==
    (outcome.op = "meta_audit" /\ runs # <<>>) =>
        \A record \in RunRecords :
            /\ Key(record) \in DOMAIN meta_registry
            /\ "stability_score" \in DOMAIN meta_registry[Key(record)]
            /\ meta_registry[Key(record)].stability_score.num * Len(runs)
                   = Occurrences(Key(record)) * meta_registry[Key(record)].stability_score.den
            /\ FlaggedTransient(record.claim_reference)
                   <=> 10 * Occurrences(Key(record)) < 6 * Len(runs)

\* C21: after a meta audit every evidence identity has a meta-registry entry
\* whose stability score is the number of runs holding a record of the
\* identity divided by the number of runs, hence between 0 and 1, also when
\* one run holds several records of the identity.
C21_StabilityCountsRuns ==
    (outcome.op = "meta_audit" /\ runs # <<>>) =>
        \A record \in RunRecords :
            /\ Key(record) \in DOMAIN meta_registry
            /\ "stability_score" \in DOMAIN meta_registry[Key(record)]
            /\ meta_registry[Key(record)].stability_score.num >= 0
            /\ meta_registry[Key(record)].stability_score.num
                   <= meta_registry[Key(record)].stability_score.den
            /\ meta_registry[Key(record)].stability_score.num * Len(runs)
                   = Occurrences(Key(record)) * meta_registry[Key(record)].stability_score.den

(***************************************************************************)
(* Cross-run disagreement                                                  *)
(***************************************************************************)
\* the (persona, criterion) pairs with an opinion in some run
OpinionPairs == {<<op.judge, op.criterion_id>> : op \in Range(AllOpinions(runs))}

\* max(scores) - min(scores) of the persona's scores for the criterion
Spread(judge, criterion_id) == ScoreJump(AllOpinions(runs), judge, criterion_id).delta

CriticalEntries(judge, criterion_id) ==
    {i \in 1..Len(meta_trace) :
        /\ meta_trace[i].kind = "score_jump"
        /\ meta_trace[i].judge = judge
        /\ meta_trace[i].criterion_id = criterion_id}

\* C22: after a meta audit the trace holds a critical entry for a persona
\* and a criterion, with their delta, exactly when the persona's scores for
\* the criterion differ by more than 1.5 across the runs.
C22_CrossRunDisagreement ==
    (outcome.op = "meta_audit" /\ runs # <<>>) =>
        \A pair \in OpinionPairs :
            /\ CriticalEntries(pair[1], pair[2]) # {} <=> 2 * Spread(pair[1], pair[2]) > 3
            /\ \A i \in CriticalEntries(pair[1], pair[2]) :
                  meta_trace[i].delta = Spread(pair[1], pair[2])

(***************************************************************************)
(* Meta override                                                           *)
(***************************************************************************)
\* the mean stability of the evidence linked to the criterion
LinkedStability(criterion_id) ==
    AverageStability(meta_registry, RelevantKeys(meta_registry, criterion_id))

HasLinked(criterion_id) == RelevantKeys(meta_registry, criterion_id) # {}

\* the adjusted score the rule gives for incoming score x, in hundredths
RuleScore(criterion_id, x) ==
    IF ~HasLinked(criterion_id) THEN x
    ELSE LET s == LinkedStability(criterion_id)
         IN  IF 2 * s.num < s.den THEN Max2(100, x - 50)
             ELSE IF 10 * s.num < 7 * s.den THEN x - 20
             ELSE IF s.num = s.den /\ x >= 400 THEN 500
             ELSE x

\* the criterion falls under one of the three adjusting cases
RuleAdjusts(criterion_id, x) ==
    /\ HasLinked(criterion_id)
    /\ \/ 10 * LinkedStability(criterion_id).num < 7 * LinkedStability(criterion_id).den
       \/ LinkedStability(criterion_id).num = LinkedStability(criterion_id).den /\ x >= 400

EntriesFor(criterion_id) ==
    {i \in 1..Len(meta_trace) : meta_trace[i].criterion_id = criterion_id}

\* C23: a call of meta_override returns, for every criterion, the score the
\* stability rule gives (x - 0.5 floored at 1.0 below 0.5, x - 0.2 below
\* 0.7, 5.0 at stability 1.0 and x >= 4.0, x otherwise), appends one trace
\* entry per adjusted criterion and none for the others, and leaves the
\* score map passed in as it was.
C23_MetaOverride ==
    outcome.op = "meta_override" =>
        /\ outcome.raised = None
        /\ \A c \in DOMAIN meta_scores :
              /\ outcome.value[c] = RuleScore(c, meta_scores[c])
              /\ Cardinality(EntriesFor(c)) = (IF RuleAdjusts(c, meta_scores[c]) THEN 1 ELSE 0)
        /\ meta_scores = outcome.arg

\* the part of C23 that is met whenever the call returns: heavy penalty,
\* boost, no linked evidence, the entries and the untouched input
C23_ReturnedButLight ==
    (outcome.op = "meta_override" /\ outcome.raised = None) =>
        /\ \A c \in DOMAIN meta_scores :
              /\ outcome.value[c] = Max2(RuleScore(c, meta_scores[c]),
                                         IF RuleAdjusts(c, meta_scores[c]) THEN 100 ELSE meta_scores[c] - 50)
              /\ Cardinality(EntriesFor(c)) = (IF RuleAdjusts(c, meta_scores[c]) THEN 1 ELSE 0)
        /\ meta_scores = outcome.arg

(***************************************************************************)
(* Consensus normalization                                                 *)
(***************************************************************************)
AuditedCriteria == Range(CriteriaInOrder(AllOpinions(runs)))

\* the mean over the runs of the run's mean persona score for the criterion
CrossRunMean(criterion_id) == MeanFraction(RunAverages(runs, criterion_id))

MetaScoreEntries(criterion_id) ==
    {i \in 1..Len(meta_trace) :
        /\ meta_trace[i].kind = "meta_score"
        /\ meta_trace[i].criterion_id = criterion_id}

\* the score of the entry, in hundredths, is 100 * mean * stability
IsProduct(score, mean, stability) ==
    score * mean.den * stability.den = 100 * mean.num * stability.num

\* ... or the hundredth nearest to it
IsRoundedProduct(score, mean, stability) ==
    /\ 2 * (score * mean.den * stability.den - 100 * mean.num * stability.num)
           <= mean.den * stability.den
    /\ 2 * (100 * mean.num * stability.num - score * mean.den * stability.den)
           <= mean.den * stability.den

\* C24: a meta audit over at least one run gives every criterion with an
\* opinion in some run a pre-override meta-score equal to the cross-run mean
\* of the per-run means times the mean stability of the linked meta-registry
\* evidence (1.0 without linked evidence).
C24_ConsensusNormalization ==
    (outcome.op = "meta_audit" /\ runs # <<>>) =>
        /\ outcome.raised = None
        /\ \A c \in AuditedCriteria :
              /\ MetaScoreEntries(c) # {}
              /\ \A i \in MetaScoreEntries(c) :
                    IsProduct(meta_trace[i].score, CrossRunMean(c),
                              _get_criterion_stability(meta_registry, c))

\* what is met whenever the meta audit returns: one entry per criterion,
\* holding the product rounded to two decimals
C24_RoundedWhenReturned ==
    (outcome.op = "meta_audit" /\ runs # <<>> /\ outcome.raised = None) =>
        \A c \in AuditedCriteria :
            /\ Cardinality(MetaScoreEntries(c)) = 1
            /\ \A i \in MetaScoreEntries(c) :
                  IsRoundedProduct(meta_trace[i].score, CrossRunMean(c),
                                   _get_criterion_stability(meta_registry, c))

(***************************************************************************)
(* The evidence reducer                                                    *)
(***************************************************************************)
IdsOf(list) == [i \in 1..Len(list) |-> list[i].id]

\* the number of items of all lists of the dict
RECURSIVE ItemCount(_)
ItemCount(dict) ==
    IF DOMAIN dict = {} THEN 0
    ELSE LET k == CHOOSE k \in DOMAIN dict : TRUE
         IN  Len(dict[k]) + ItemCount([j \in DOMAIN dict \ {k} |-> dict[j]])

\* the outputs folded into an empty channel, one after the other
RECURSIVE MergedAll(_)
MergedAll(outputs) ==
    IF outputs = <<>> THEN <<>>
    ELSE merge_dicts(MergedAll(SubSeq(outputs, 1, Len(outputs) - 1)),
                     outputs[Len(outputs)]).res

Times(x, list) == Cardinality({i \in 1..Len(list) : list[i] = x})

SameItems(a, b) == \A x \in Range(a) \cup Range(b) : Times(x, a) = Times(x, b)

RECURSIVE SumItems(_)
SumItems(outputs) ==
    IF outputs = <<>> THEN 0 ELSE ItemCount(Head(outputs)) + SumItems(Tail(outputs))

\* C25: a merge returns, for every key, the left list followed by the right
\* list (a key of one side only keeps its list), holds as many items as the
\* two sides together and leaves the left argument as it was; the channel
\* holds as many items as were merged, and per key the same items whatever
\* the order in which the outputs are merged.
C25_MergeKeepsAll ==
    outcome.op = "merge_dicts" =>
        /\ DOMAIN outcome.value.res = DOMAIN outcome.arg.left \cup DOMAIN outcome.arg.right
        /\ \A k \in DOMAIN outcome.value.res :
              /\ outcome.value.res[k]
                     = ListOf(outcome.value.left, k) \o ListOf(outcome.value.right, k)
              /\ IdsOf(outcome.value.res[k])
                     = IdsOf(ListOf(outcome.arg.left, k)) \o IdsOf(ListOf(outcome.arg.right, k))
        /\ ItemCount(outcome.value.res)
               = ItemCount(outcome.arg.left) + ItemCount(outcome.arg.right)
        /\ outcome.value.left = outcome.arg.left
        /\ ItemCount(evidences) = SumItems(added)
        /\ \A order \in Permutations(1..Len(added)) :
              LET merged == MergedAll([i \in 1..Len(added) |-> added[order[i]]])
              IN  /\ DOMAIN merged = DOMAIN evidences
                  /\ \A k \in DOMAIN merged : SameItems(merged[k], evidences[k])

\* a key with items on both sides has been merged, after outputs of two
\* detectives
C25_Witness ==
    /\ outcome.op = "merge_dicts"
    /\ Len(added) = MaxMerges
    /\ Cardinality(DOMAIN evidences) >= 2
    /\ \E k \in DOMAIN outcome.arg.right :
          /\ outcome.arg.right[k] # <<>>
          /\ ListOf(outcome.arg.left, k) # <<>>

(***************************************************************************)
(* Order of the meta consolidation                                         *)
(***************************************************************************)
\* the place of an entry of the meta trace in the order of the steps
StepOf(entry) ==
    CASE entry.kind = "transient" -> 1
      [] entry.kind = "score_jump" -> 2
      [] entry.kind = "meta_score" -> 3
      [] entry.kind \in {"heavy", "light", "boost"} -> 4
      [] entry.kind = "complete" -> 5

InStepOrder ==
    \A i \in 1..Len(meta_trace), j \in 1..Len(meta_trace) :
        i < j => StepOf(meta_trace[i]) <= StepOf(meta_trace[j])

EndsComplete ==
    /\ meta_trace # <<>>
    /\ meta_trace[Len(meta_trace)] = [kind |-> "complete", runs |-> Len(runs)]

\* every entry of the meta registry, and every evidence identity of the
\* runs, has its stability score
StabilityFinal ==
    /\ \A k \in DOMAIN meta_registry : "stability_score" \in DOMAIN meta_registry[k]
    /\ \A record \in RunRecords : Key(record) \in DOMAIN meta_registry

\* C26: after a meta audit over at least one run every meta-registry entry
\* has its stability score, the trace lists transient entries, critical
\* entries, meta-score entries and override entries in this order and ends
\* with the entry "complete across N runs", and the runs are as passed in.
C26_MetaOrdering ==
    (outcome.op = "meta_audit" /\ runs # <<>>) =>
        /\ StabilityFinal
        /\ InStepOrder
        /\ EndsComplete
        /\ runs = outcome.arg

\* the order of the entries and the untouched runs are met by every call;
\* the final entry is there whenever the call returns
C26_OrderWhenReturned ==
    (outcome.op = "meta_audit" /\ runs # <<>>) =>
        /\ InStepOrder
        /\ runs = outcome.arg
        /\ outcome.raised = None => EndsComplete
        /\ outcome.raised = None => RunRecords = {}

(***************************************************************************)
(* Bounds of the meta scores                                               *)
(***************************************************************************)
\* the criteria the meta override penalized
Penalized ==
    {meta_trace[i].criterion_id :
        i \in {j \in 1..Len(meta_trace) : meta_trace[j].kind \in {"heavy", "light"}}}

\* the score normalization gave the criterion, before the override
ScoreBeforeOverride(criterion_id) ==
    meta_trace[CHOOSE i \in MetaScoreEntries(criterion_id) : TRUE].score

C27_BoundsWithoutLinked ==
    (outcome.op = "meta_audit" /\ runs # <<>> /\ outcome.raised = None) =>
        \A c \in DOMAIN meta_scores :
            RelevantKeys(meta_registry, c) = {} =>
                100 <= meta_scores[c] /\ meta_scores[c] <= 500

\* a meta audit that returns found no linked evidence, or evidence handed
\* in with the registry
C24_LinkedOnlyWhenGiven ==
    (outcome.op = "meta_audit" /\ runs # <<>> /\ outcome.raised = None) =>
        /\ ~HasRecords(runs)
        /\ \A c \in AuditedCriteria :
              \A k \in RelevantKeys(meta_registry, c) : "stability_score" \in DOMAIN meta_registry[k]

(***************************************************************************)
(* Graduated confidence override                                           *)
(***************************************************************************)
\* the confidences of the matching evidence with found = true
FoundConfidences(c) ==
    {ev.confidence : ev \in {e \in AllEvidence : Matches(c, e) /\ e.found}}

\* m of the rule, in hundredths: their maximum, 0 when there is none
HighestConfidence(c) ==
    IF FoundConfidences(c) = {} THEN 0
    ELSE CHOOSE m \in FoundConfidences(c) : \A x \in FoundConfidences(c) : x <= m

\* C28: in the returned report a criterion with m < 0.3 has final score 1
\* and a criterion with 0.3 <= m < 0.7 has final score at most 2, security
\* and safety criteria included.
C28_GraduatedOverride ==
    \A i \in 1..Len(Reported) :
        /\ HighestConfidence(Reported[i].dimension_id) < 30 => Reported[i].final_score = 1
        /\ HighestConfidence(Reported[i].dimension_id) < 70 => Reported[i].final_score <= 2

\* the rule is met on every criterion that is not a security or safety
\* criterion with Prosecutor <= 3
C28_ExceptSecurity ==
    \A i \in 1..Len(Reported) :
        ~(SecurityTable[Reported[i].dimension_id] /\ Reported[i].prosecutor_score <= 3) =>
            /\ HighestConfidence(Reported[i].dimension_id) < 30 => Reported[i].final_score = 1
            /\ HighestConfidence(Reported[i].dimension_id) < 70 => Reported[i].final_score <= 2

(***************************************************************************)
(* Agreement of trace and score                                            *)
(***************************************************************************)
LockedEntries(r) ==
    {k \in 1..Len(r.reasoning_trace) : r.reasoning_trace[k].kind = "Final Score Locked"}

CoherenceKinds == {"Systemic Coherence Penalty", "Systemic Coherence Cap"}

\* C29: every result of the returned report has exactly one entry
\* "Final Score Locked: k/5" in its trace, and k is its final score.
C29_LockedIsFinal ==
    \A i \in 1..Len(Reported) :
        /\ Cardinality(LockedEntries(Reported[i])) = 1
        /\ \A k \in LockedEntries(Reported[i]) :
              Reported[i].reasoning_trace[k].a = Reported[i].final_score

\* every result has exactly one such entry, and it holds the final score
\* unless the coherence pass adjusted the result afterwards
C29_LockedBeforeCoherence ==
    \A i \in 1..Len(Reported) :
        /\ Cardinality(LockedEntries(Reported[i])) = 1
        /\ TraceKinds(Reported[i]) \cap CoherenceKinds = {} =>
              \A k \in LockedEntries(Reported[i]) :
                  Reported[i].reasoning_trace[k].a = Reported[i].final_score

(***************************************************************************)
(* Monotonicity of the synthesis                                           *)
(***************************************************************************)
\* the final score the criterion loop gives c when the score of `judge` on
\* c is s and everything else is as in the state
FinalWith(c, judge, s) ==
    SynthesizeCriterion(evidences, registry, c,
                        OpinionsOf(WithScore(c, judge, s), c)).result.final_score

\* C30: with the evidence, the criterion and the scores of the other two
\* personas fixed, a higher score of one persona never gives the criterion
\* a lower synthesized final score.
C30_Monotone ==
    \A c \in Range(CriteriaInOrder(opinions)) :
        \A k \in 1..Len(Judges) :
            \A s \in Scores, t \in Scores :
                s < t => FinalWith(c, Judges[k], s) <= FinalWith(c, Judges[k], t)

=============================================================================
